---- MODULE Spec2Model ----
(***************************************************************************)
(* A model of the request pipeline of the ams orchestrator:                *)
(*   - manifest.Registry: Load / compileRoute / Match (manifest.go)        *)
(*   - agentx.Agent: Run / handleToolCallsWithLimit (agentx.go)            *)
(*   - context.Builder: Build / executeProviders, and the part of          *)
(*     Orchestrator.HandleChat that consumes the build result.             *)
(*   - memoryx: BufferMemory, SessionMemory over the session repository,   *)
(*     SessionService, and the session steps of HandleChat.                *)
(*   - manifest.ValidateManifest.                                          *)
(*   - Orchestrator.HandleChatStream with Agent.StreamWithTools.           *)
(* Each subsystem has its own specification; the variables of the other    *)
(* subsystems stay at their initial values under it.                       *)
(***************************************************************************)
EXTENDS Integers, Sequences, FiniteSets, TLC

VARIABLES
  manifest,     \* Registry.manifest (NilManifest = nil pointer)
  routes,       \* Registry.routes: sequence of routeEntry
  fallback,     \* Registry.fallback (NilRoute = nil pointer)
  mu,           \* Registry.mu: [writer |-> BOOLEAN, readers |-> Nat]
  loader,       \* the goroutine running Registry.Load: its position and locals
  matcher,      \* the goroutines running Registry.Match: position and locals
  lastLoad,     \* the last completed Load call: its argument and its result
  lastMatch,    \* the last completed Match call: its argument, what it saw, its result
  agentCfg,     \* Agent.maxAutoIterations, Agent.maxTotalIterations, Agent.tools
  agent,        \* the goroutine running Agent.Run: its position and locals
  mem,          \* Agent.memory: the messages held by the Memory
  trace,        \* the calls Run has made so far to the LLM client and to the tools
  chatReq,      \* the chat request: the matched route's providers, the user, the responses
  chat,         \* the goroutine running Orchestrator.HandleChat
  build,        \* Builder.Build and its call of executeProviders
  exec,         \* executeProviders' shared locals: results, failedProviders, mu, wg
  workers,      \* the provider goroutines started by executeProviders
  buf,          \* a BufferMemory: systemMessage, messages, maxMessages
  db,           \* the sessions and session_messages tables behind the SessionRepository
  now,          \* the wall clock read by time.Now()
  added,        \* the messages passed to Add since the last Clear, in call order
  obs,          \* what the last Messages() call returned on either memory
  sess,         \* the SessionService calls made, and a HandleChat that uses the session
  val,          \* a manifest handed to ValidateManifest, and what the call returned
  stream,       \* a HandleChatStream call: its position and the chunks sent so far
  conc,         \* requests adding to one session concurrently, and what readers saw
  tpl,          \* a template, a parameter map, and what the resolvers made of them
  ext,          \* a context path, a workflow context, and what extractFromContext returned
  env           \* a resolveEnvVars call: the environment, its result so far, its position

regVars == <<manifest, routes, fallback, mu, loader, matcher, lastLoad, lastMatch>>

agentVars == <<agentCfg, agent, mem, trace>>

ctxVars == <<chatReq, chat, build, exec, workers>>

vars == <<manifest, routes, fallback, mu, loader, matcher, lastLoad, lastMatch,
          agentCfg, agent, mem, trace, chatReq, chat, build, exec, workers,
          buf, db, now, added, obs, sess, val, stream, conc, tpl, ext, env>>

memVars == <<buf, db, now, added, obs>>

notRegVars ==
  <<agentVars, ctxVars, memVars, sess, val, stream, conc, tpl, ext, env>>

notAgentVars ==
  <<regVars, ctxVars, memVars, sess, val, stream, conc, tpl, ext, env>>

notCtxVars ==
  <<regVars, agentVars, memVars, sess, val, stream, conc, tpl, ext, env>>

notMemVars ==
  <<regVars, agentVars, ctxVars, sess, val, stream, conc, tpl, ext, env>>

\* a session call writes db and now, and leaves the BufferMemory alone
notSessVars ==
  <<regVars, agentVars, ctxVars, buf, added, obs, val, stream, conc, tpl, ext, env>>

notValVars ==
  <<regVars, agentVars, ctxVars, memVars, sess, stream, conc, tpl, ext, env>>

notTplVars == <<regVars, agentVars, ctxVars, memVars, sess, val, stream, conc, ext, env>>

notExtVars == <<regVars, agentVars, ctxVars, memVars, sess, val, stream, conc, tpl, env>>

notEnvVars == <<regVars, agentVars, ctxVars, memVars, sess, val, stream, conc, tpl, ext>>

\* a concurrent Add writes db and now
notConcVars ==
  <<regVars, agentVars, ctxVars, buf, added, obs, sess, val, stream, tpl, ext, env>>

notStreamVars ==
  <<regVars, agentVars, ctxVars, memVars, sess, val, conc, tpl, ext, env>>

(***************************************************************************)
(* Bounds of the model.                                                    *)
(***************************************************************************)
MaxRoutes == 2
MaxPathLen == 5
NumMatchers == 2
MaxIterCfg == 3
MaxToolCalls == 2
MaxProviders == 2
MaxAdds == 3
MaxCap == 2
MaxChats == 2
\* Run calls made one after the other on one agent and memory
MaxRuns == 2
MaxValRoutes == 2
MaxChunks == 3
NumAdders == 2
MaxConcAdds == 2
MaxReads == 2
MaxTplLen == 5

(***************************************************************************)
(* Small helpers on sequences.                                             *)
(***************************************************************************)
SeqsUpTo(S, n) == UNION {[1..k -> S] : k \in 0..n}

EmptyMap == [k \in {} |-> <<>>]

(***************************************************************************)
(* Strings are sequences of one-character strings.  The alphabet of route  *)
(* patterns has the path separator, the parameter marker, two word         *)
(* characters and an opening parenthesis (which regexp.Compile rejects     *)
(* when it is never closed).  Request paths use the separator and the      *)
(* word characters.                                                        *)
(***************************************************************************)
WordChars == {"a", "b"}

PathChars == {"/", "a"}

Paths == SeqsUpTo(PathChars, MaxPathLen) \ {<<>>}

Patterns ==
  { <<"/", "a">>,
    <<"/", ":", "a">>,
    <<"/", "a", "/", ":", "b">>,
    <<"/", ":", "a", "/", ":", "b">>,
    <<"/", ":", "a", "/", ":", "a">>,
    <<"/", ":", "a", "b">>,
    <<"/", "(">> }

(***************************************************************************)
(* manifest.Route, manifest.Manifest.  The registry holds pointers into    *)
(* the manifest it was given, so a route is identified by the manifest it  *)
(* belongs to ("of", the manifest's version tag) and its name.  Routes of  *)
(* a manifest carry distinct names (their position), as ValidateManifest   *)
(* demands.                                                                *)
(***************************************************************************)
NilRoute == [of |-> "nil", name |-> "nil", pattern |-> <<>>]

RouteName(i) == <<"r1", "r2", "r3", "r4">>[i]

FallbackRoute(v) == [of |-> v, name |-> "fallback", pattern |-> <<"/", "a">>]

NilManifest == [version |-> "nil", routes |-> <<>>, fallback |-> NilRoute]

ManifestOf(v, pats, fb) ==
  [version |-> v,
   routes |-> [i \in 1..Len(pats) |-> [of |-> v, name |-> RouteName(i), pattern |-> pats[i]]],
   fallback |-> IF fb THEN FallbackRoute(v) ELSE NilRoute]

Manifests ==
  {ManifestOf("v1", pats, fb) : pats \in SeqsUpTo(Patterns, MaxRoutes) \ {<<>>}, fb \in BOOLEAN}

(***************************************************************************)
(* Registry.compileRoute.                                                  *)
(* paramRegex `:(\w+)` is scanned left to right; each match takes the      *)
(* longest run of word characters after the colon.  Tokens(p, i) is the    *)
(* pattern from position i on with every match turned into a capture       *)
(* token carrying the parameter name and every other character kept.       *)
(***************************************************************************)
RECURSIVE WordRun(_, _)
WordRun(p, i) ==
  IF i <= Len(p) /\ p[i] \in WordChars THEN 1 + WordRun(p, i + 1) ELSE 0

RECURSIVE Tokens(_, _)
Tokens(p, i) ==
  IF i > Len(p) THEN <<>>
  ELSE IF p[i] = ":" /\ WordRun(p, i + 1) > 0
       THEN LET n == WordRun(p, i + 1)
            IN <<[t |-> "cap", name |-> SubSeq(p, i + 1, i + n)]>> \o Tokens(p, i + n + 1)
       ELSE <<[t |-> "lit", name |-> <<p[i]>>]>> \o Tokens(p, i + 1)

\* paramRegex.FindAllStringSubmatch: the parameter names in pattern order
ParamNames(p) ==
  LET toks == Tokens(p, 1)
      caps == SelectSeq(toks, LAMBDA x : x.t = "cap")
  IN [i \in 1..Len(caps) |-> caps[i].name]

\* paramRegex.ReplaceAllString + the anchors: the regex as a token sequence;
\* a "cap" token stands for `([^/]+)`, the whole sequence is anchored.
RegexPattern(p) == Tokens(p, 1)

\* regexp.Compile fails on a group that is opened and never closed
CompileFails(re) == \E i \in 1..Len(re) : re[i].t = "lit" /\ re[i].name = <<"(">>

\* both computed once per pattern
CompiledPattern == [p \in Patterns |-> [re |-> RegexPattern(p), names |-> ParamNames(p)]]

compileRoute(route) ==
  LET c == CompiledPattern[route.pattern]
  IN IF CompileFails(c.re)
     THEN [err |-> TRUE, entry |-> [route |-> NilRoute, pattern |-> <<>>, params |-> <<>>]]
     ELSE [err |-> FALSE,
           entry |-> [route |-> route, pattern |-> c.re, params |-> c.names]]

(***************************************************************************)
(* Regexp.FindStringSubmatch on an anchored token sequence: leftmost-first *)
(* matching, each capture trying its longest extent first.  The result is  *)
(* [ok, caps]: whether the whole path matches and the captured substrings. *)
(***************************************************************************)
NoMatch == [ok |-> FALSE, caps |-> <<>>]

RECURSIVE SegRun(_, _)
SegRun(path, j) ==
  IF j <= Len(path) /\ path[j] # "/" THEN 1 + SegRun(path, j + 1) ELSE 0

RECURSIVE MatchFrom(_, _, _, _, _)
RECURSIVE TryCapture(_, _, _, _, _, _)
MatchFrom(re, k, path, j, caps) ==
  IF k > Len(re)
  THEN IF j > Len(path) THEN [ok |-> TRUE, caps |-> caps] ELSE NoMatch
  ELSE IF re[k].t = "lit"
       THEN IF j <= Len(path) /\ <<path[j]>> = re[k].name
            THEN MatchFrom(re, k + 1, path, j + 1, caps)
            ELSE NoMatch
       ELSE TryCapture(re, k, path, j, caps, SegRun(path, j))

TryCapture(re, k, path, j, caps, n) ==
  IF n < 1 THEN NoMatch
  ELSE LET r == MatchFrom(re, k + 1, path, j + n, Append(caps, SubSeq(path, j, j + n - 1)))
       IN IF r.ok THEN r ELSE TryCapture(re, k, path, j, caps, n - 1)

FindStringSubmatch(re, path) == MatchFrom(re, 1, path, 1, <<>>)

(***************************************************************************)
(* Registry.Load, as a function of the registry's fields.  The loop stops  *)
(* at the first route that does not compile; the fields assigned before    *)
(* that point (manifest, routes) keep their new values and fallback keeps  *)
(* its old one.                                                            *)
(***************************************************************************)
RECURSIVE CompileFrom(_, _, _)
CompileFrom(m, i, acc) ==
  IF i > Len(m.routes) THEN [err |-> FALSE, routes |-> acc]
  ELSE LET c == compileRoute(m.routes[i])
       IN IF c.err THEN [err |-> TRUE, routes |-> acc]
          ELSE CompileFrom(m, i + 1, Append(acc, c.entry))

LoadResult(m, oldFallback) ==
  LET c == CompileFrom(m, 1, <<>>)
  IN [err |-> c.err,
      manifest |-> m,
      routes |-> c.routes,
      fallback |-> IF c.err THEN oldFallback ELSE m.fallback]

(***************************************************************************)
(* Registry.Match, as a function of the registry's fields.                 *)
(***************************************************************************)
NoResult == [err |-> "pending", route |-> NilRoute, params |-> EmptyMap]

\* params[param] = match[i+1], for i in the order of entry.params
RECURSIVE BindParams(_, _, _, _)
BindParams(names, caps, i, acc) ==
  IF i > Len(names) THEN acc
  ELSE BindParams(names, caps, i + 1,
                  [n \in (DOMAIN acc) \cup {names[i]} |->
                     IF n = names[i] THEN caps[i] ELSE acc[n]])

\* the loop over r.routes: the first entry whose pattern matches the path
\* a scan in which a later matching route replaces an earlier one
ScanRoutesLastMatch(rs, i, path) ==
  LET hits == {j \in i..Len(rs) : FindStringSubmatch(rs[j].pattern, path).ok}
  IN IF hits = {} THEN [found |-> FALSE, res |-> NoResult]
     ELSE LET j == CHOOSE l \in hits : \A h \in hits : h <= l
          IN [found |-> TRUE,
              res |-> [err |-> "none", route |-> rs[j].route,
                       params |-> BindParams(rs[j].params,
                                             FindStringSubmatch(rs[j].pattern, path).caps,
                                             1, EmptyMap)]]

RECURSIVE ScanRoutes(_, _, _)
ScanRoutes(rs, i, path) ==
  IF i > Len(rs) THEN [found |-> FALSE, res |-> NoResult]
  ELSE LET sm == FindStringSubmatch(rs[i].pattern, path)
       IN IF sm.ok
          THEN [found |-> TRUE,
                res |-> [err |-> "none", route |-> rs[i].route,
                         params |-> BindParams(rs[i].params, sm.caps, 1, EmptyMap)]]
          ELSE ScanRoutes(rs, i + 1, path)

\* the tail of Match: the fallback, or the not-found error
FallbackResult(fb) ==
  IF fb # NilRoute
  THEN [err |-> "none", route |-> fb, params |-> EmptyMap]
  ELSE [err |-> "route_not_found", route |-> NilRoute, params |-> EmptyMap]

\* a Match that prefers the fallback to the declared routes
MatchResultFallbackFirst(mf, rs, fb, path) ==
  IF mf = NilManifest
  THEN [err |-> "manifest_not_loaded", route |-> NilRoute, params |-> EmptyMap]
  ELSE IF fb # NilRoute THEN FallbackResult(fb)
       ELSE LET s == ScanRoutes(rs, 1, path)
            IN IF s.found THEN s.res ELSE FallbackResult(fb)

MatchResult(mf, rs, fb, path) ==
  IF mf = NilManifest
  THEN [err |-> "manifest_not_loaded", route |-> NilRoute, params |-> EmptyMap]
  ELSE LET s == ScanRoutes(rs, 1, path)
       IN IF s.found THEN s.res ELSE FallbackResult(fb)

(***************************************************************************)
(* Initial state of the registry (NewRegistry) and of its callers.         *)
(***************************************************************************)
IdleLoader == [pc |-> "idle", m |-> NilManifest, i |-> 0]

IdleMatcher == [pc |-> "idle", path |-> <<>>, res |-> NoResult,
                seenRoutes |-> <<>>, seenFallback |-> NilRoute]

NoLoad == [done |-> FALSE, m |-> NilManifest, err |-> FALSE]

NoMatchCall == [done |-> FALSE, path |-> <<>>, res |-> NoResult,
                seenRoutes |-> <<>>, seenFallback |-> NilRoute]

RegInit ==
  /\ manifest = NilManifest
  /\ routes = <<>>
  /\ fallback = NilRoute
  /\ mu = [writer |-> FALSE, readers |-> 0]
  /\ loader = IdleLoader
  /\ matcher = [r \in 1..NumMatchers |-> IdleMatcher]
  /\ lastLoad = NoLoad
  /\ lastMatch = NoMatchCall

(***************************************************************************)
(* The registry called from one goroutine at a time: each action is one    *)
(* whole call of Load or Match.  The caller holds the RouteMatch that      *)
(* Match returned until it is done with it (matchRoute's caller); it       *)
(* makes its next call after that.                                         *)
(***************************************************************************)
Load(m) ==
  LET r == LoadResult(m, fallback)
  IN /\ ~lastMatch.done
     /\ manifest' = r.manifest
     /\ routes' = r.routes
     /\ fallback' = r.fallback
     /\ lastLoad' = [done |-> TRUE, m |-> m, err |-> r.err]
     /\ lastMatch' = NoMatchCall
     /\ UNCHANGED <<mu, loader, matcher>>
     /\ UNCHANGED notRegVars

Match(path) ==
  /\ ~lastMatch.done
  /\ lastMatch' = [done |-> TRUE, path |-> path,
                   res |-> MatchResult(manifest, routes, fallback, path),
                   seenRoutes |-> routes, seenFallback |-> fallback]
  /\ UNCHANGED <<manifest, routes, fallback, mu, loader, matcher, lastLoad>>
  /\ UNCHANGED notRegVars

ReleaseMatch ==
  /\ lastMatch.done
  /\ lastMatch' = NoMatchCall
  /\ UNCHANGED <<manifest, routes, fallback, mu, loader, matcher, lastLoad>>
  /\ UNCHANGED notRegVars

RegNext ==
  \/ ReleaseMatch
  \/ \E m \in Manifests : Load(m)
  \/ \E path \in Paths : Match(path)

(***************************************************************************)
(* The registry under hot reload: one goroutine calls Load while           *)
(* NumMatchers goroutines call Match.  Each action is one step of a call   *)
(* between two points where another goroutine can run.  Load holds         *)
(* r.mu.Lock() from its first statement to its return (defer Unlock);      *)
(* Match holds r.mu.RLock() likewise.                                      *)
(***************************************************************************)
ConcManifests ==
  { ManifestOf("v1", << <<"/", "a">> >>, TRUE),
    ManifestOf("v2", << <<"/", ":", "a">>, <<"/", "(">> >>, TRUE),
    ManifestOf("v3", << <<"/", ":", "a">> >>, FALSE) }

ConcPaths == { <<"/", "a">>, <<"/", "a", "a">>, <<"/">> }

\* r.mu.Lock()
LoadLock(m) ==
  /\ loader.pc = "idle"
  /\ ~mu.writer /\ mu.readers = 0
  /\ mu' = [mu EXCEPT !.writer = TRUE]
  /\ loader' = [pc |-> "reset", m |-> m, i |-> 0]
  /\ UNCHANGED <<manifest, routes, fallback, matcher, lastLoad, lastMatch>>
  /\ UNCHANGED notRegVars

\* r.manifest = manifest; r.routes = make(...)
LoadReset ==
  /\ loader.pc = "reset"
  /\ manifest' = loader.m
  /\ routes' = <<>>
  /\ loader' = [loader EXCEPT !.pc = "compile", !.i = 1]
  /\ UNCHANGED <<fallback, mu, matcher, lastLoad, lastMatch>>
  /\ UNCHANGED notRegVars

\* one turn of the loop over manifest.Routes; a compile error returns (and unlocks)
LoadCompile ==
  /\ loader.pc = "compile"
  /\ loader.i <= Len(loader.m.routes)
  /\ LET c == compileRoute(loader.m.routes[loader.i])
     IN IF c.err
        THEN /\ mu' = [mu EXCEPT !.writer = FALSE]
             /\ lastLoad' = [done |-> TRUE, m |-> loader.m, err |-> TRUE]
             /\ loader' = IdleLoader
             /\ UNCHANGED routes
        ELSE /\ routes' = Append(routes, c.entry)
             /\ loader' = [loader EXCEPT !.i = loader.i + 1]
             /\ UNCHANGED <<mu, lastLoad>>
  /\ UNCHANGED <<manifest, fallback, matcher, lastMatch>>
  /\ UNCHANGED notRegVars

\* r.fallback = manifest.Fallback; return nil (and unlock)
LoadSetFallback ==
  /\ loader.pc = "compile"
  /\ loader.i > Len(loader.m.routes)
  /\ fallback' = loader.m.fallback
  /\ mu' = [mu EXCEPT !.writer = FALSE]
  /\ lastLoad' = [done |-> TRUE, m |-> loader.m, err |-> FALSE]
  /\ loader' = IdleLoader
  /\ UNCHANGED <<manifest, routes, matcher, lastMatch>>
  /\ UNCHANGED notRegVars

\* r.mu.RLock()
MatchRLock(r, path) ==
  /\ matcher[r].pc = "idle"
  /\ ~mu.writer
  /\ mu' = [mu EXCEPT !.readers = mu.readers + 1]
  /\ matcher' = [matcher EXCEPT ![r] = [IdleMatcher EXCEPT !.pc = "scan", !.path = path]]
  /\ UNCHANGED <<manifest, routes, fallback, loader, lastLoad, lastMatch>>
  /\ UNCHANGED notRegVars

\* the nil check and the loop over r.routes
MatchScan(r) ==
  /\ matcher[r].pc = "scan"
  /\ LET s == ScanRoutes(routes, 1, matcher[r].path)
     IN matcher' = [matcher EXCEPT ![r] =
          IF manifest = NilManifest
          THEN [@ EXCEPT !.pc = "unlock",
                         !.res = MatchResult(manifest, routes, fallback, matcher[r].path)]
          ELSE IF s.found
               THEN [@ EXCEPT !.pc = "unlock", !.res = s.res, !.seenRoutes = routes]
               ELSE [@ EXCEPT !.pc = "tail", !.seenRoutes = routes]]
  /\ UNCHANGED <<manifest, routes, fallback, mu, loader, lastLoad, lastMatch>>
  /\ UNCHANGED notRegVars

\* the read of r.fallback after the loop
MatchTail(r) ==
  /\ matcher[r].pc = "tail"
  /\ matcher' = [matcher EXCEPT ![r] =
        [@ EXCEPT !.pc = "unlock", !.res = FallbackResult(fallback), !.seenFallback = fallback]]
  /\ UNCHANGED <<manifest, routes, fallback, mu, loader, lastLoad, lastMatch>>
  /\ UNCHANGED notRegVars

\* the deferred r.mu.RUnlock() and the return
MatchRUnlock(r) ==
  /\ matcher[r].pc = "unlock"
  /\ mu' = [mu EXCEPT !.readers = mu.readers - 1]
  /\ matcher' = [matcher EXCEPT ![r] = [@ EXCEPT !.pc = "idle"]]
  /\ UNCHANGED <<manifest, routes, fallback, loader, lastLoad, lastMatch>>
  /\ UNCHANGED notRegVars

RegConcNext ==
  \/ \E m \in ConcManifests : LoadLock(m)
  \/ LoadReset
  \/ LoadCompile
  \/ LoadSetFallback
  \/ \E r \in 1..NumMatchers, path \in ConcPaths : MatchRLock(r, path)
  \/ \E r \in 1..NumMatchers : MatchScan(r)
  \/ \E r \in 1..NumMatchers : MatchTail(r)
  \/ \E r \in 1..NumMatchers : MatchRUnlock(r)

(***************************************************************************)
(* The reference reading of a pattern (spec 3, "Pattern"): a slash-        *)
(* delimited template in which a segment of the form :identifier matches   *)
(* exactly one non-empty segment of the path.                              *)
(***************************************************************************)
RECURSIVE Split(_, _, _)
Split(s, i, cur) ==
  IF i > Len(s) THEN <<cur>>
  ELSE IF s[i] = "/" THEN <<cur>> \o Split(s, i + 1, <<>>)
       ELSE Split(s, i + 1, Append(cur, s[i]))

IsParamSeg(seg) ==
  /\ Len(seg) >= 2
  /\ seg[1] = ":"
  /\ \A i \in 2..Len(seg) : seg[i] \in WordChars

SegMatches(pattern, path) ==
  LET ps == Split(pattern, 1, <<>>)
      xs == Split(path, 1, <<>>)
  IN /\ Len(ps) = Len(xs)
     /\ \A i \in 1..Len(ps) : IF IsParamSeg(ps[i]) THEN xs[i] # <<>> ELSE ps[i] = xs[i]

\* the positions of the parameter segments of a pattern, in order
ParamSegs(pattern) ==
  LET ps == Split(pattern, 1, <<>>)
  IN SelectSeq([i \in 1..Len(ps) |-> i], LAMBDA i : IsParamSeg(ps[i]))

SegName(pattern, k) ==
  LET seg == Split(pattern, 1, <<>>)[ParamSegs(pattern)[k]] IN SubSeq(seg, 2, Len(seg))

SegCapture(pattern, path, k) == Split(path, 1, <<>>)[ParamSegs(pattern)[k]]

\* the declared routes of m whose pattern matches the path, and the first of them
Hits(m, path) == {i \in 1..Len(m.routes) : SegMatches(m.routes[i].pattern, path)}

IsFirstHit(m, path, i) == i \in Hits(m, path) /\ \A j \in Hits(m, path) : i <= j

LoadedThenMatched == lastLoad.done /\ ~lastLoad.err /\ lastMatch.done

(***************************************************************************)
(* agentx.Agent.  The configuration is fixed at construction (New and the  *)
(* AgentOption functions): the two iteration limits and the tool client,   *)
(* which is nil, a registry without tools, or a registry with tools.       *)
(* The LLM client, the tool client and the Memory are collaborators: an    *)
(* LLM call fails or answers with any number of tool calls, whatever tool  *)
(* choice it was given; a tool call and a memory operation succeed or      *)
(* fail.                                                                   *)
(***************************************************************************)
AgentConfigs ==
  [maxAutoIterations : 0..MaxIterCfg,
   maxTotalIterations : 0..MaxIterCfg,
   tools : {"nil", "empty", "some"}]

Msg(role, calls, turn, idx) == [role |-> role, calls |-> calls, turn |-> turn, idx |-> idx]

SystemMessage == Msg("system", 0, 0, 0)

\* the number of LLM calls made so far
LLMCalls == Len(SelectSeq(trace, LAMBDA e : e.op = "llm"))

\* the number of tool invocations made so far
ToolInvocations == Len(SelectSeq(trace, LAMBDA e : e.op = "tool"))

StartFrame == [pc |-> "add_user", iteration |-> 0, batch |-> 0, k |-> 0, result |-> "none"]

\* a return that lets the loop go on after a failed tool call
ReturnUnlessToolError(result) ==
  IF result = "tool_error"
  THEN [agent EXCEPT !.pc = "add_tool"]
  ELSE [agent EXCEPT !.pc = "done", !.result = result]

Return(result) == [agent EXCEPT !.pc = "done", !.result = result]

AgentInit ==
  /\ agentCfg \in AgentConfigs
  /\ agent = StartFrame
  /\ mem = <<SystemMessage>>
  /\ trace = <<>>

AgentParked ==
  /\ agentCfg = [maxAutoIterations |-> 0, maxTotalIterations |-> 0, tools |-> "nil"]
  /\ agent = StartFrame
  /\ mem = <<SystemMessage>>
  /\ trace = <<>>

\* a limit check that is off by one
LimitExceededLate(iteration) == iteration > agentCfg.maxTotalIterations

\* a loop without the hard limit
LimitNeverExceeded(iteration) == FALSE

\* handleToolCallsWithLimit: the hard limit check
LimitExceeded(iteration) == iteration >= agentCfg.maxTotalIterations

\* a loop that never forces the tool choice to "none"
ToolChoiceAlwaysAuto(iteration) == IF agentCfg.tools = "some" THEN "auto" ELSE "unset"

\* handleToolCallsWithLimit: the tool choice sent with the LLM call of an iteration;
\* "unset" is a call without a tool-choice option
ToolChoice(iteration) ==
  IF agentCfg.tools = "some"
  THEN IF iteration < agentCfg.maxAutoIterations THEN "auto" ELSE "none"
  ELSE "unset"

\* ToolxClient.Call: a tool the registry does not hold cannot be executed
ToolOutcomes == IF agentCfg.tools = "some" THEN {"ok", "error"} ELSE {"error"}

\* Run: memory.Add(llm.NewUserMessage(userInput))
RunAddUser ==
  /\ agent.pc = "add_user"
  /\ \/ /\ mem' = Append(mem, Msg("user", 0, 0, 0))
        /\ agent' = [agent EXCEPT !.pc = "messages"]
     \/ /\ agent' = Return("memory_error")
        /\ UNCHANGED mem
  /\ UNCHANGED <<agentCfg, trace>>
  /\ UNCHANGED notAgentVars

\* Run and handleToolCallsWithLimit: memory.Messages()
RunMessages ==
  /\ agent.pc = "messages"
  /\ \/ agent' = [agent EXCEPT !.pc = "chat"]
     \/ agent' = Return("memory_error")
  /\ UNCHANGED <<agentCfg, mem, trace>>
  /\ UNCHANGED notAgentVars

\* Run: client.Chat without a tool-choice option;
\* handleToolCallsWithLimit: client.Chat with the tool choice of the iteration.
\* The answer carries n tool calls.
RunChat ==
  /\ agent.pc = "chat"
  /\ LET first == LLMCalls = 0
         choice == IF first THEN "unset" ELSE ToolChoice(agent.iteration)
         call(failed) == [op |-> "llm", iteration |-> agent.iteration,
                          loop |-> ~first, choice |-> choice, failed |-> failed]
     IN \/ /\ trace' = Append(trace, call(FALSE))
           /\ \E n \in 0..MaxToolCalls :
                agent' = [agent EXCEPT !.pc = "add_response", !.batch = n]
        \/ /\ trace' = Append(trace, call(TRUE))
           /\ agent' = Return("llm_error")
  /\ UNCHANGED <<agentCfg, mem>>
  /\ UNCHANGED notAgentVars

\* memory.Add(response.Message), then the check for tool calls: Run enters the
\* loop at iteration 0 when there are tool calls and a tool client; the loop
\* goes on with iteration + 1 when there are tool calls
RunAddResponse ==
  /\ agent.pc = "add_response"
  /\ \/ /\ mem' = Append(mem, Msg("assistant", agent.batch, LLMCalls, 0))
        /\ LET first == LLMCalls = 1
               more == IF first THEN agent.batch > 0 /\ agentCfg.tools # "nil"
                       ELSE agent.batch > 0
           IN agent' = IF more
                       THEN [agent EXCEPT !.pc = "limit",
                                          !.iteration = IF first THEN 0 ELSE agent.iteration + 1]
                       ELSE Return("ok")
     \/ /\ agent' = Return("memory_error")
        /\ UNCHANGED mem
  /\ UNCHANGED <<agentCfg, trace>>
  /\ UNCHANGED notAgentVars

\* handleToolCallsWithLimit: the hard limit check at the head of an iteration
LoopLimit ==
  /\ agent.pc = "limit"
  /\ agent.iteration <= MaxIterCfg
  /\ agent' = IF LimitExceeded(agent.iteration)
              THEN Return("iterations_exceeded")
              ELSE [agent EXCEPT !.pc = "tool", !.k = 1]
  /\ UNCHANGED <<agentCfg, mem, trace>>
  /\ UNCHANGED notAgentVars

\* handleToolCallsWithLimit: a.tools.Call(ctx, tc) for the k-th tool call of the batch
LoopToolCall ==
  /\ agent.pc = "tool"
  /\ \E out \in ToolOutcomes :
       /\ trace' = Append(trace, [op |-> "tool", iteration |-> agent.iteration,
                                  loop |-> TRUE, choice |-> "unset", failed |-> out # "ok"])
       /\ agent' = IF out = "ok" THEN [agent EXCEPT !.pc = "add_tool"] ELSE Return("tool_error")
  /\ UNCHANGED <<agentCfg, mem>>
  /\ UNCHANGED notAgentVars

\* handleToolCallsWithLimit: memory.Add(toolResponse), then the next tool call
LoopAddTool ==
  /\ agent.pc = "add_tool"
  /\ \/ /\ mem' = Append(mem, Msg("tool", 0, LLMCalls, agent.k))
        /\ agent' = IF agent.k < agent.batch
                    THEN [agent EXCEPT !.pc = "tool", !.k = agent.k + 1]
                    ELSE [agent EXCEPT !.pc = "messages"]
     \/ /\ agent' = Return("memory_error")
        /\ UNCHANGED mem
  /\ UNCHANGED <<agentCfg, trace>>
  /\ UNCHANGED notAgentVars

\* the caller's next Run on the same agent: Run starts from the memory the
\* previous Run left, whatever that Run returned
UserMessages == {i \in 1..Len(mem) : mem[i].role = "user"}

RunAgain ==
  /\ agent.pc = "done"
  /\ Cardinality(UserMessages) < MaxRuns
  /\ agent' = StartFrame
  /\ trace' = <<>>
  /\ UNCHANGED <<agentCfg, mem>>
  /\ UNCHANGED notAgentVars

AgentNext ==
  \/ RunAddUser
  \/ RunMessages
  \/ RunChat
  \/ RunAddResponse
  \/ LoopLimit
  \/ LoopToolCall
  \/ LoopAddTool

(***************************************************************************)
(* Orchestrator.HandleChat from the context build on, Builder.Build and    *)
(* Builder.executeProviders.  The request fixes the provider descriptors   *)
(* of the matched route, the user, whether a fresh context is built        *)
(* (req.ShouldFetchContext || len(req.RouteParams) > 0) and, for each      *)
(* descriptor, whether the backend behind it answers its request.          *)
(***************************************************************************)
Provider(name, type, optional, condition) ==
  [name |-> name, type |-> type, optional |-> optional, condition |-> condition]

ProviderConfigs ==
  { Provider("A", "http", FALSE, ""),
    Provider("A", "http", TRUE, "user.guest"),
    Provider("B", "http", FALSE, "user.authenticated"),
    Provider("B", "http", TRUE, ""),
    Provider("B", "grpc", TRUE, "feature.beta"),
    Provider("A", "grpc", FALSE, "") }

Users == {"nil", "anonymous", "known"}

\* req.RouteParams and req.Frontend as the caller may send them
RouteParamInputs == {EmptyMap, [k \in {"id"} |-> "7"]}

FrontendInputs == {"nil", "page"}

\* req.Message and req.Route.Path, empty or not
ChatMessages == {"", "hi"}

ChatPaths == {"", "/a"}

ChatRequestsOf(messages, paths, configs, fetches, params, frontends) ==
  UNION { { [message |-> msg, path |-> path, providers |-> ps, user |-> u,
             shouldFetchContext |-> f, routeParams |-> rp, frontend |-> fr,
             responds |-> rs] :
              msg \in messages, path \in paths,
              u \in Users, f \in fetches, rp \in params, fr \in frontends,
              rs \in [1..Len(ps) -> BOOLEAN] } :
          ps \in SeqsUpTo(configs, MaxProviders) }

\* the requests that pass validateRequest, with no route parameters and no frontend
ChatRequests == ChatRequestsOf({"hi"}, {"/a"}, ProviderConfigs, BOOLEAN, {EmptyMap}, {"nil"})

\* the requests with every way of asking for a context, over fewer descriptors
ContextRequests ==
  ChatRequestsOf(ChatMessages, ChatPaths,
                 { Provider("A", "http", FALSE, ""),
                   Provider("B", "http", TRUE, "user.authenticated"),
                   Provider("B", "grpc", FALSE, "") },
                 BOOLEAN, RouteParamInputs, FrontendInputs)

\* a validation that looks at the message only
validateMessageOnly(req) == IF req.message = "" THEN "MISSING_MESSAGE" ELSE ""

\* Orchestrator.validateRequest: the code of the error, "" for nil
validateRequest(req) ==
  IF req.message = "" THEN "MISSING_MESSAGE"
  ELSE IF req.path = "" THEN "MISSING_ROUTE"
  ELSE ""

\* a test that looks at the flag only
ShouldFetchContextOnly(req) == req.shouldFetchContext

\* HandleChat, HandleChatStream: shouldBuildContext
ShouldBuildContext(req) == req.shouldFetchContext \/ DOMAIN req.routeParams # {}

\* the FullContext the handler holds: none yet, BuildMinimal's or Build's
NoContext == [built |-> "none", backend |-> EmptyMap, frontend |-> "nil"]

BuildMinimal == [built |-> "minimal", backend |-> EmptyMap, frontend |-> "nil"]

FullContext(backend, frontend) == [built |-> "full", backend |-> backend, frontend |-> frontend]

\* User.IsAuthenticated
IsAuthenticated(user) == user = "known"

\* buildProviderParams: params["user_authenticated"]
UserAuthenticatedParam(user) == IF user # "nil" THEN IsAuthenticated(user) ELSE FALSE

evaluateCondition(condition, user) ==
  CASE condition = "user.authenticated" -> UserAuthenticatedParam(user)
    [] condition = "user.guest" -> ~UserAuthenticatedParam(user)
    [] OTHER -> TRUE

\* executeProviders: the test at the head of the loop body
Skipped(cfg, user) == cfg.condition # "" /\ ~evaluateCondition(cfg.condition, user)

\* ProviderLoader.createProvider
createProviderFails(cfg) == cfg.type # "http"

\* ProviderLoader.LoadFromRouteConfig: a required provider that cannot be created
LoadFails(ps) == \E i \in 1..Len(ps) : createProviderFails(ps[i]) /\ ~ps[i].optional

\* NewProviderClient: the providers created, keyed by name
ClientNames(ps) == {ps[i].name : i \in {j \in 1..Len(ps) : ~createProviderFails(ps[j])}}

\* ProviderClient.Get for the goroutine of descriptor w
ProviderGet(client, w) == chatReq.providers[w].name \in client /\ chatReq.responds[w]

\* executeProviders: results[cfg.Name] = data; the data is named by the goroutine that fetched it
StoreResult(results, name, w) ==
  [n \in DOMAIN results \cup {name} |-> IF n = name THEN w ELSE results[n]]

\* an error branch that records optional providers too
RecordFailureAlways(failed, cfg) == Append(failed, cfg.name)

\* executeProviders: the error branch of a goroutine
RecordFailure(failed, cfg) == IF ~cfg.optional THEN Append(failed, cfg.name) ELSE failed

\* executeProviders: the error returned with the results
ExecError(failed) == IF Len(failed) > 0 THEN "MULTIPLE_PROVIDERS_FAILED" ELSE "none"

\* Build: what it returns after executeProviders
BuildError(execErr) == "none"

IdleWorker == [pc |-> "idle", ok |-> FALSE, late |-> FALSE]

IdleChat == [pc |-> "validate", code |-> "none", status |-> 0, matched |-> FALSE,
             memoryMade |-> FALSE, agentRan |-> FALSE, cancelled |-> FALSE,
             context |-> NoContext]

IdleBuild == [pc |-> "idle", i |-> 0, client |-> {}, execErr |-> "none", err |-> "none",
              backend |-> EmptyMap]

IdleExec == [results |-> EmptyMap, failedProviders |-> <<>>, mu |-> 0, wg |-> 0]

CtxInit ==
  /\ chatReq \in ChatRequests
  /\ chat = IdleChat
  /\ build = IdleBuild
  /\ exec = IdleExec
  /\ workers = [w \in 1..MaxProviders |-> IdleWorker]

CtxParked ==
  /\ chatReq = [message |-> "", path |-> "", providers |-> <<>>, user |-> "nil",
                shouldFetchContext |-> FALSE,
                routeParams |-> EmptyMap, frontend |-> "nil", responds |-> <<>>]
  /\ chat = IdleChat
  /\ build = IdleBuild
  /\ exec = IdleExec
  /\ workers = [w \in 1..MaxProviders |-> IdleWorker]

ChatFail(code, status) == [chat EXCEPT !.pc = "done", !.code = code, !.status = status]

\* HandleChat step 1: validateRequest
ChatValidate ==
  /\ chat.pc = "validate"
  /\ chat' = IF validateRequest(chatReq) # ""
             THEN ChatFail(validateRequest(chatReq), 400)
             ELSE [chat EXCEPT !.pc = "match"]
  /\ UNCHANGED <<chatReq, build, exec, workers>>
  /\ UNCHANGED notCtxVars

\* HandleChat step 2: matchRoute finds the route of the request or none
ChatMatch ==
  /\ chat.pc = "match"
  /\ \/ chat' = [chat EXCEPT !.pc = "start", !.matched = TRUE]
     \/ chat' = [ChatFail("ROUTE_NOT_FOUND", 404) EXCEPT !.matched = TRUE]
  /\ UNCHANGED <<chatReq, build, exec, workers>>
  /\ UNCHANGED notCtxVars

\* HandleChat: shouldBuildContext decides between Build and BuildMinimal
ChatStart ==
  /\ chat.pc = "start"
  /\ IF ShouldBuildContext(chatReq)
     THEN /\ chat' = [chat EXCEPT !.pc = "build"]
          /\ build' = [build EXCEPT !.pc = "load"]
     ELSE /\ chat' = [chat EXCEPT !.pc = "memory", !.context = BuildMinimal]
          /\ UNCHANGED build
  /\ UNCHANGED <<chatReq, exec, workers>>
  /\ UNCHANGED notCtxVars

\* Build: b.loader.LoadFromRouteConfig(routeMatch.Route)
BuildLoad ==
  /\ build.pc = "load"
  /\ build' = IF LoadFails(chatReq.providers)
              THEN [build EXCEPT !.pc = "returned", !.err = "BUILD_FAILED"]
              ELSE [build EXCEPT !.pc = "dispatch", !.i = 1,
                                 !.client = ClientNames(chatReq.providers)]
  /\ UNCHANGED <<chatReq, chat, exec, workers>>
  /\ UNCHANGED notCtxVars

\* executeProviders: one pass of the loop over providerConfigs
ExecDispatch ==
  /\ build.pc = "dispatch"
  /\ build.i <= Len(chatReq.providers)
  /\ build' = [build EXCEPT !.i = build.i + 1]
  /\ IF Skipped(chatReq.providers[build.i], chatReq.user)
     THEN UNCHANGED <<exec, workers>>
     ELSE /\ exec' = [exec EXCEPT !.wg = exec.wg + 1]
          /\ workers' = [workers EXCEPT ![build.i].pc = "get"]
  /\ UNCHANGED <<chatReq, chat>>
  /\ UNCHANGED notCtxVars

\* HTTPProvider.GetContext under a cancelled ctx: client.Do or the body read fails,
\* or the response had arrived and the call completes as it would have
GetOutcomes(client, w) ==
  IF chat.cancelled THEN {ProviderGet(client, w), FALSE} ELSE {ProviderGet(client, w)}

\* goroutine: providerClient.Get(ctx, cfg.Name, params); late records that the
\* call returned after the request context was cancelled
WorkerGet(w) ==
  /\ workers[w].pc = "get"
  /\ \E ok \in GetOutcomes(build.client, w) :
       workers' = [workers EXCEPT ![w] = [pc |-> "lock", ok |-> ok, late |-> chat.cancelled]]
  /\ UNCHANGED <<chatReq, chat, build, exec>>
  /\ UNCHANGED notCtxVars

\* goroutine: mu.Lock()
WorkerLock(w) ==
  /\ workers[w].pc = "lock"
  /\ exec.mu = 0
  /\ exec' = [exec EXCEPT !.mu = w]
  /\ workers' = [workers EXCEPT ![w].pc = "locked"]
  /\ UNCHANGED <<chatReq, chat, build>>
  /\ UNCHANGED notCtxVars

\* goroutine: the write under the mutex, then mu.Unlock()
WorkerRecord(w) ==
  /\ workers[w].pc = "locked"
  /\ LET cfg == chatReq.providers[w]
     IN exec' = IF workers[w].ok
                THEN [exec EXCEPT !.results = StoreResult(exec.results, cfg.name, w), !.mu = 0]
                ELSE [exec EXCEPT !.failedProviders = RecordFailure(exec.failedProviders, cfg),
                                  !.mu = 0]
  /\ workers' = [workers EXCEPT ![w].pc = "unlocked"]
  /\ UNCHANGED <<chatReq, chat, build>>
  /\ UNCHANGED notCtxVars

\* goroutine: the deferred wg.Done()
WorkerDone(w) ==
  /\ workers[w].pc = "unlocked"
  /\ exec' = [exec EXCEPT !.wg = exec.wg - 1]
  /\ workers' = [workers EXCEPT ![w].pc = "done"]
  /\ UNCHANGED <<chatReq, chat, build>>
  /\ UNCHANGED notCtxVars

\* a fan-out that returns once it has dispatched, without waiting
ExecNoWait ==
  /\ build.pc = "dispatch"
  /\ build.i > Len(chatReq.providers)
  /\ build' = [build EXCEPT !.pc = "executed", !.execErr = ExecError(exec.failedProviders)]
  /\ UNCHANGED <<chatReq, chat, exec, workers>>
  /\ UNCHANGED notCtxVars

\* executeProviders: wg.Wait() and the return
ExecWait ==
  /\ build.pc = "dispatch"
  /\ build.i > Len(chatReq.providers)
  /\ exec.wg = 0
  /\ build' = [build EXCEPT !.pc = "executed", !.execErr = ExecError(exec.failedProviders)]
  /\ UNCHANGED <<chatReq, chat, exec, workers>>
  /\ UNCHANGED notCtxVars

\* Build: fullContext.Backend = backendData and the return
BuildReturn ==
  /\ build.pc = "executed"
  /\ build' = [build EXCEPT !.pc = "returned", !.backend = exec.results,
                            !.err = BuildError(build.execErr)]
  /\ UNCHANGED <<chatReq, chat, exec, workers>>
  /\ UNCHANGED notCtxVars

\* HandleChat: the error check after Build
ChatBuilt ==
  /\ chat.pc = "build"
  /\ build.pc = "returned"
  /\ chat' = IF build.err # "none"
             THEN ChatFail("CONTEXT_BUILD_FAILED", 500)
             ELSE [chat EXCEPT !.pc = "memory",
                               !.context = FullContext(build.backend, chatReq.frontend)]
  /\ UNCHANGED <<chatReq, build, exec, workers>>
  /\ UNCHANGED notCtxVars

\* HandleChat: getOrCreateMemory and createAgentWithMemory; either may fail
ChatPrepare ==
  /\ chat.pc = "memory"
  /\ \/ chat' = [chat EXCEPT !.pc = "agent", !.memoryMade = TRUE]
     \/ chat' = [ChatFail("TOOL_LOAD_FAILED", 500) EXCEPT !.memoryMade = TRUE]
  /\ UNCHANGED <<chatReq, build, exec, workers>>
  /\ UNCHANGED notCtxVars

\* HandleChat: agent.Run(ctx, req.Message) and the response
ChatRunAgent ==
  /\ chat.pc = "agent"
  /\ \/ chat' = [chat EXCEPT !.pc = "done", !.status = 200, !.agentRan = TRUE]
     \/ chat' = [ChatFail("AGENT_EXECUTION_FAILED", 500) EXCEPT !.agentRan = TRUE]
  /\ UNCHANGED <<chatReq, build, exec, workers>>
  /\ UNCHANGED notCtxVars

\* the caller cancels the request context while Build is running
CtxCancel ==
  /\ chat.pc = "build"
  /\ build.pc \in {"load", "dispatch"}
  /\ ~chat.cancelled
  /\ chat' = [chat EXCEPT !.cancelled = TRUE]
  /\ UNCHANGED <<chatReq, build, exec, workers>>
  /\ UNCHANGED notCtxVars

CtxNext ==
  \/ ChatValidate
  \/ ChatMatch
  \/ ChatStart
  \/ BuildLoad
  \/ ExecDispatch
  \/ \E w \in 1..MaxProviders : WorkerGet(w)
  \/ \E w \in 1..MaxProviders : WorkerLock(w)
  \/ \E w \in 1..MaxProviders : WorkerRecord(w)
  \/ \E w \in 1..MaxProviders : WorkerDone(w)
  \/ ExecWait
  \/ BuildReturn
  \/ ChatBuilt
  \/ ChatPrepare
  \/ ChatRunAgent

(***************************************************************************)
(* memoryx: BufferMemory and SessionMemory over the PostgresSession-       *)
(* Repository.  One session exists; the two memories are driven by the     *)
(* same calls.  A repository call is taken to succeed, and time.Now() to   *)
(* read a later instant at every call.                                     *)
(***************************************************************************)
LLMMessage(role, content, toolCalls, toolCallID) ==
  [role |-> role, content |-> content, toolCalls |-> toolCalls, toolCallID |-> toolCallID]

\* the system messages a memory is created with; "" is no system message
Seeds == {LLMMessage("system", "", <<>>, ""), LLMMessage("system", "sys", <<>>, "")}

\* the messages passed to Add: conversation turns, a tool call and its reply,
\* and a system-role message as createContextInjectionMessage builds it
AddedMessages ==
  { LLMMessage("user", "a", <<>>, ""),
    LLMMessage("user", "b", <<>>, ""),
    LLMMessage("assistant", "a", <<>>, ""),
    LLMMessage("assistant", "", <<"t1">>, ""),
    LLMMessage("tool", "b", <<>>, "t1"),
    LLMMessage("system", "ctx", <<>>, "") }

SessionID == "s1"

\* NewBufferMemory with WithMaxMessages(max)
NewBufferMemory(systemMessage, max) ==
  [systemMessage |-> systemMessage, messages |-> <<>>, maxMessages |-> max]

\* BufferMemory.Messages
BufferMessages(b) ==
  IF b.systemMessage.content # "" THEN <<b.systemMessage>> \o b.messages ELSE b.messages

\* an Add that, at the cap, keeps the stored messages and drops the new one
BufferAddDropNewest(b, m) ==
  IF b.maxMessages > 0 /\ Len(b.messages) >= b.maxMessages
  THEN b
  ELSE [b EXCEPT !.messages = Append(b.messages, m)]

\* BufferMemory.Add
BufferAdd(b, m) ==
  LET ms == Append(b.messages, m)
  IN IF b.maxMessages > 0 /\ Len(ms) > b.maxMessages
     THEN [b EXCEPT !.messages = SubSeq(ms, Len(ms) - b.maxMessages + 1, Len(ms))]
     ELSE [b EXCEPT !.messages = ms]

\* BufferMemory.Clear
BufferClear(b) == [b EXCEPT !.messages = <<>>]

\* BufferMemory.Replace
BufferReplace(b, ms) == [b EXCEPT !.messages = ms]

\* BufferMemory.Count
BufferCount(b) == Len(b.messages)

\* json.Marshal of the tool calls, and json.Unmarshal of the column
MarshalToolCalls(calls) == <<"[">> \o calls \o <<"]">>

UnmarshalToolCalls(text) == SubSeq(text, 2, Len(text) - 1)

\* FromLLMMessage: the row for a message, stamped with time.Now()
FromLLMMessage(sessionID, m, t) ==
  [id |-> 0, session_id |-> sessionID, role |-> m.role, content |-> m.content,
   tool_calls |-> IF Len(m.toolCalls) > 0 THEN MarshalToolCalls(m.toolCalls) ELSE <<>>,
   tool_call_id |-> m.toolCallID, created_at |-> t]

\* SessionMessage.ToLLMMessage
ToLLMMessage(row) ==
  LLMMessage(row.role, row.content,
             IF row.tool_calls # <<>> THEN UnmarshalToolCalls(row.tool_calls) ELSE <<>>,
             row.tool_call_id)

NoSession == [exists |-> FALSE, system_message |-> "", is_active |-> FALSE]

EmptyDB == [session |-> NoSession, rows |-> {}, nextID |-> 1]

\* PostgresSessionRepository.CreateSession: INSERT INTO sessions
RepoCreateSession(d, systemMsg) ==
  [d EXCEPT !.session = [exists |-> TRUE, system_message |-> systemMsg, is_active |-> TRUE]]

\* PostgresSessionRepository.AddMessage: INSERT INTO session_messages ... RETURNING id
RepoAddMessage(d, row) ==
  [d EXCEPT !.rows = @ \cup {[row EXCEPT !.id = d.nextID]}, !.nextID = @ + 1]

\* the rows latest first
RECURSIVE OrderByCreatedAtDesc(_)
OrderByCreatedAtDesc(rows) ==
  IF rows = {} THEN <<>>
  ELSE LET first == CHOOSE r \in rows : \A q \in rows : r.created_at >= q.created_at
       IN <<first>> \o OrderByCreatedAtDesc(rows \ {first})

\* ORDER BY created_at ASC
RECURSIVE OrderByCreatedAt(_)
OrderByCreatedAt(rows) ==
  IF rows = {} THEN <<>>
  ELSE LET first == CHOOSE r \in rows : \A q \in rows : r.created_at <= q.created_at
       IN <<first>> \o OrderByCreatedAt(rows \ {first})

\* PostgresSessionRepository.GetMessages
RepoGetMessages(d, sessionID) ==
  OrderByCreatedAt({r \in d.rows : r.session_id = sessionID})

\* PostgresSessionRepository.ClearMessages: DELETE ... AND role != 'system'
RepoClearMessages(d, sessionID) ==
  [d EXCEPT !.rows = {r \in @ : ~(r.session_id = sessionID /\ r.role # "system")}]

\* PostgresSessionRepository.DeleteSession: SET is_active = false
RepoDeleteSession(d) == [d EXCEPT !.session.is_active = FALSE]

\* SessionService.CreateSession that inserts the session and no message
CreateSessionNoSeedRow(d, systemMessage, t) == RepoCreateSession(d, systemMessage.content)

\* SessionService.CreateSession, both inserts done
CreateSession(d, systemMessage, t) ==
  RepoAddMessage(RepoCreateSession(d, systemMessage.content),
                 FromLLMMessage(SessionID, systemMessage, t))

\* SessionMemory.Messages
SessionMessages(d) ==
  LET rows == RepoGetMessages(d, SessionID)
  IN [i \in 1..Len(rows) |-> ToLLMMessage(rows[i])]

\* SessionMemory.Add
SessionAdd(d, m, t) == RepoAddMessage(d, FromLLMMessage(SessionID, m, t))

\* SessionMemory.Clear
SessionClear(d) == RepoClearMessages(d, SessionID)

NoObs == [done |-> FALSE, buffer |-> <<>>, session |-> <<>>]

\* NewBufferMemory(seed) and CreateSession(seed), then GetSessionMemory
MemInit ==
  /\ \E seed \in Seeds, max \in 0..MaxCap :
       /\ buf = NewBufferMemory(seed, max)
       /\ db = CreateSession(EmptyDB, seed, 1)
  /\ now = 1
  /\ added = <<>>
  /\ obs = NoObs

MemParked ==
  /\ buf = NewBufferMemory(LLMMessage("system", "", <<>>, ""), 0)
  /\ db = EmptyDB
  /\ now = 0
  /\ added = <<>>
  /\ obs = NoObs

\* Add(m) on both memories
MemAdd(m) ==
  /\ now <= MaxAdds
  /\ now' = now + 1
  /\ buf' = BufferAdd(buf, m)
  /\ db' = SessionAdd(db, m, now')
  /\ added' = Append(added, m)
  /\ obs' = NoObs
  /\ UNCHANGED notMemVars

\* Clear() on both memories
MemClear ==
  /\ buf' = BufferClear(buf)
  /\ db' = SessionClear(db)
  /\ added' = <<>>
  /\ obs' = NoObs
  /\ UNCHANGED now
  /\ UNCHANGED notMemVars

\* Messages() on both memories
MemMessages ==
  /\ ~obs.done
  /\ obs' = [done |-> TRUE, buffer |-> BufferMessages(buf), session |-> SessionMessages(db)]
  /\ UNCHANGED <<buf, db, now, added>>
  /\ UNCHANGED notMemVars

MemNext ==
  \/ \E m \in AddedMessages : MemAdd(m)
  \/ MemClear
  \/ MemMessages

\* the message lists given to Replace, up to one message more than the largest cap
ReplaceInputs ==
  SeqsUpTo({LLMMessage("user", "a", <<>>, ""), LLMMessage("assistant", "a", <<>>, "")},
           MaxCap + 1)

\* Replace(ms) on the buffer memory; the session memory has no Replace
MemReplace(ms) ==
  /\ buf' = BufferReplace(buf, ms)
  /\ obs' = NoObs
  /\ UNCHANGED <<db, now, added>>
  /\ UNCHANGED notMemVars

BufferNext ==
  \/ MemNext
  \/ \E ms \in ReplaceInputs : MemReplace(ms)

(***************************************************************************)
(* SessionService over the repository, and the steps of HandleChat that    *)
(* use the session: getOrCreateMemory, the context injection, the agent.   *)
(* The request's validation, route match and context build are one step    *)
(* that either fails with its own error or hands over to the memory step.  *)
(***************************************************************************)
\* SessionService.GetSessionMemory without the IsActive test
GetSessionMemoryAnyState(d, sessionID) ==
  IF sessionID # SessionID \/ ~d.session.exists THEN "SESSION_NOT_FOUND" ELSE ""

\* SessionService.GetSessionMemory: the error it returns, "" when it returns a memory
GetSessionMemory(d, sessionID) ==
  IF sessionID # SessionID \/ ~d.session.exists THEN "SESSION_NOT_FOUND"
  ELSE IF ~d.session.is_active THEN "SESSION_INACTIVE"
  ELSE ""

\* the outcomes of SessionService.CreateSession: both inserts done, the insert
\* of the session failed, the insert of the system message failed
CreateOutcomes == {"ok", "session", "message"}

CreateSessionOutcome(d, systemMessage, t, outcome) ==
  CASE outcome = "ok" -> CreateSession(d, systemMessage, t)
    [] outcome = "session" -> d
    [] outcome = "message" -> RepoCreateSession(d, systemMessage.content)

\* ChatRequest.SessionID, whether the full context was built for the request, and
\* the number of keys of its backend map; the minimal context has none
SessionRequests ==
  {r \in [sessionID : {"", SessionID, "s2"}, built : BOOLEAN, backendKeys : {0, 1}] :
     ~r.built => r.backendKeys = 0}

\* a test that does not look at the backend map
ShouldInjectAnyContext(req) == req.sessionID # "" /\ req.built

\* HandleChat step 7: req.SessionID != "" && shouldBuildContext && len(fullContext.Backend) > 0
ShouldInject(req) == req.sessionID # "" /\ req.built /\ req.backendKeys > 0

\* the errors of steps 1 to 5 of HandleChat, "" for none
EarlyErrors == {"", "MISSING_MESSAGE", "CONTEXT_BUILD_FAILED"}

ContextSystemMessage == LLMMessage("system", "sys", <<>>, "")

ContextInjectionMessage == LLMMessage("system", "ctx", <<>>, "")

UserMessage == LLMMessage("user", "a", <<>>, "")

AssistantMessage == LLMMessage("assistant", "b", <<>>, "")

IdleSess ==
  [pc |-> "idle", last |-> "", created |-> "", seed |-> LLMMessage("system", "", <<>>, ""),
   chats |-> 0, req |-> [sessionID |-> "", built |-> FALSE, backendKeys |-> 0],
   inactiveAtStart |-> FALSE, rowsAtStart |-> {}, atMemory |-> FALSE,
   injectTried |-> FALSE, contextInjected |-> FALSE, agentRan |-> FALSE, err |-> ""]

SessInit ==
  /\ sess = IdleSess
  /\ db = EmptyDB
  /\ now = 0
  /\ buf = NewBufferMemory(LLMMessage("system", "", <<>>, ""), 0)
  /\ added = <<>>
  /\ obs = NoObs

SessParked == sess = IdleSess

SessFail(code) == [sess EXCEPT !.pc = "done", !.err = code, !.last = "chat"]

\* SessionService.CreateSession(seed)
SvcCreateSession(seed, outcome) ==
  /\ sess.pc = "idle"
  /\ ~db.session.exists
  /\ now' = IF outcome = "ok" THEN now + 1 ELSE now
  /\ db' = CreateSessionOutcome(db, seed, now + 1, outcome)
  /\ sess' = [sess EXCEPT !.last = "create", !.created = outcome, !.seed = seed]
  /\ UNCHANGED notSessVars

\* SessionService.DeleteSession, at any moment
SvcDeleteSession ==
  /\ db.session.exists
  /\ db.session.is_active
  /\ db' = RepoDeleteSession(db)
  /\ sess' = [sess EXCEPT !.last = "delete"]
  /\ UNCHANGED now
  /\ UNCHANGED notSessVars

\* HandleChat, steps 1 to 5
SessChatStart(req, early) ==
  /\ sess.pc = "idle"
  /\ sess.chats < MaxChats
  /\ req.sessionID = "" => ~db.session.exists
  /\ sess' = [sess EXCEPT !.pc = IF early = "" THEN "memory" ELSE "done",
                          !.err = early, !.req = req, !.chats = @ + 1,
                          !.inactiveAtStart = db.session.exists /\ ~db.session.is_active,
                          !.rowsAtStart = db.rows, !.atMemory = FALSE,
                          !.injectTried = FALSE, !.contextInjected = FALSE,
                          !.agentRan = FALSE, !.last = "chat"]
  /\ UNCHANGED <<db, now>>
  /\ UNCHANGED notSessVars

\* HandleChat step 6, getOrCreateMemory with a session service
SessChatMemory ==
  /\ sess.pc = "memory"
  /\ IF sess.req.sessionID # ""
     THEN LET err == GetSessionMemory(db, sess.req.sessionID)
          IN /\ UNCHANGED <<db, now>>
             /\ sess' = IF err # "" THEN [SessFail(err) EXCEPT !.atMemory = TRUE]
                        ELSE [sess EXCEPT !.pc = "inject", !.atMemory = TRUE, !.last = "chat"]
     ELSE \E outcome \in CreateOutcomes :
            /\ now' = IF outcome = "ok" THEN now + 1 ELSE now
            /\ db' = CreateSessionOutcome(db, ContextSystemMessage, now + 1, outcome)
            /\ sess' = IF outcome # "ok" THEN [SessFail("DB_ERROR") EXCEPT !.atMemory = TRUE]
                       ELSE IF GetSessionMemory(db', SessionID) # ""
                       THEN [SessFail(GetSessionMemory(db', SessionID)) EXCEPT !.atMemory = TRUE]
                       ELSE [sess EXCEPT !.pc = "inject", !.atMemory = TRUE, !.last = "chat"]
  /\ UNCHANGED notSessVars

\* HandleChat step 7: memory.Add(contextMsg), a failure is logged only
SessChatInject ==
  /\ sess.pc = "inject"
  /\ IF ShouldInject(sess.req)
     THEN \E ok \in BOOLEAN :
            /\ db' = IF ok THEN SessionAdd(db, ContextInjectionMessage, now + 1) ELSE db
            /\ now' = IF ok THEN now + 1 ELSE now
            /\ sess' = [sess EXCEPT !.pc = "agent", !.injectTried = TRUE,
                                    !.contextInjected = ok, !.last = "chat"]
     ELSE /\ UNCHANGED <<db, now>>
          /\ sess' = [sess EXCEPT !.pc = "agent", !.last = "chat"]
  /\ UNCHANGED notSessVars

\* HandleChat step 8: createAgentWithMemory
SessChatPrepare ==
  /\ sess.pc = "agent"
  /\ \/ sess' = [sess EXCEPT !.pc = "run", !.last = "chat"]
     \/ sess' = SessFail("TOOL_LOAD_FAILED")
  /\ UNCHANGED <<db, now>>
  /\ UNCHANGED notSessVars

\* HandleChat step 9: agent.Run adds the user message, calls the LLM, adds the answer
SessChatRun ==
  /\ sess.pc = "run"
  /\ \/ /\ db' = SessionAdd(SessionAdd(db, UserMessage, now + 1), AssistantMessage, now + 2)
        /\ now' = now + 2
        /\ sess' = [sess EXCEPT !.pc = "done", !.err = "", !.agentRan = TRUE, !.last = "chat"]
     \/ /\ db' = SessionAdd(db, UserMessage, now + 1)
        /\ now' = now + 1
        /\ sess' = [SessFail("AGENT_EXECUTION_FAILED") EXCEPT !.agentRan = TRUE]
  /\ UNCHANGED notSessVars

\* HandleChat returns
SessChatReturn ==
  /\ sess.pc = "done"
  /\ sess' = [sess EXCEPT !.pc = "idle", !.last = "chat"]
  /\ UNCHANGED <<db, now>>
  /\ UNCHANGED notSessVars

SessNext ==
  \/ \E seed \in Seeds, outcome \in CreateOutcomes : SvcCreateSession(seed, outcome)
  \/ SvcDeleteSession
  \/ \E req \in SessionRequests, early \in EarlyErrors : SessChatStart(req, early)
  \/ SessChatMemory
  \/ SessChatInject
  \/ SessChatPrepare
  \/ SessChatRun
  \/ SessChatReturn

(***************************************************************************)
(* ValidateManifest, and Registry.Load of a manifest it accepted.  An      *)
(* error is a record: the rule, the route it is about (0 for the manifest, *)
(* FallbackAt for the fallback) and the provider (0 for none).             *)
(***************************************************************************)
FallbackAt == MaxValRoutes + 1

ValidationError(rule, at, prov) == [rule |-> rule, at |-> at, prov |-> prov]

VProvider(name, type, url) == [name |-> name, type |-> type, url |-> url]

VProviderLists ==
  { <<>>,
    <<VProvider("p", "http", "u")>>,
    <<VProvider("p", "http", "")>>,
    <<VProvider("", "", "")>>,
    <<VProvider("", "http", "")>>,
    <<VProvider("p", "", "u"), VProvider("q", "http", "")>> }

VPatterns == {<<>>, <<"a">>, <<"/", "a">>, <<"/", "(">>}

VRoutes == [name : {"", "r1", "r2"}, pattern : VPatterns, providers : VProviderLists]

NoFallback == [name |-> "nil", pattern |-> <<>>, providers |-> <<>>]

VFallbacks ==
  {NoFallback} \cup [name : {"", "fb"}, pattern : VPatterns \ {<<"/", "(">>},
                     providers : {<<>>, <<VProvider("p", "http", "")>>}]

VManifests ==
  [version : {"", "1"}, routes : SeqsUpTo(VRoutes, MaxValRoutes), fallback : VFallbacks]

\* validateProvider: the first rule the provider breaks
validateProvider(provider, at, k) ==
  IF provider.type = "" THEN <<ValidationError("MISSING_PROVIDER_TYPE", at, k)>>
  ELSE IF provider.name = "" THEN <<ValidationError("MISSING_PROVIDER_NAME", at, k)>>
  ELSE IF provider.type = "http" /\ provider.url = ""
  THEN <<ValidationError("MISSING_PROVIDER_URL", at, k)>>
  ELSE <<>>

\* the loop of validateRoute over the providers: it returns at the first error
RECURSIVE validateProviders(_, _, _)
validateProviders(providers, at, k) ==
  IF k > Len(providers) THEN <<>>
  ELSE IF validateProvider(providers[k], at, k) # <<>>
  THEN validateProvider(providers[k], at, k)
  ELSE validateProviders(providers, at, k + 1)

\* validateRoute: the first rule the route breaks
validateRoute(route, at) ==
  IF route.pattern = <<>> THEN <<ValidationError("MISSING_ROUTE_PATTERN", at, 0)>>
  ELSE IF route.name = "" THEN <<ValidationError("MISSING_ROUTE_NAME", at, 0)>>
  ELSE validateProviders(route.providers, at, 1)

\* compileRoutePattern: strings.HasPrefix(pattern, "/"), nothing is compiled
compileRoutePattern(route, at) ==
  IF route.pattern # <<>> /\ Head(route.pattern) # "/"
  THEN <<ValidationError("INVALID_PATTERN", at, 0)>>
  ELSE <<>>

\* the body of ValidateManifest's loop for route i
ValidateRouteAt(m, i) ==
  validateRoute(m.routes[i], i)
    \o (IF \E j \in 1..(i - 1) : m.routes[j].name = m.routes[i].name
        THEN <<ValidationError("DUPLICATE_ROUTE_NAME", i, 0)>> ELSE <<>>)
    \o compileRoutePattern(m.routes[i], i)

RECURSIVE ValidateRoutesFrom(_, _)
ValidateRoutesFrom(m, i) ==
  IF i > Len(m.routes) THEN <<>> ELSE ValidateRouteAt(m, i) \o ValidateRoutesFrom(m, i + 1)

\* ValidateManifest: the errors carried by the error it returns, <<>> for nil
ValidateManifest(m) ==
  IF m.version = "" THEN <<ValidationError("MISSING_VERSION", 0, 0)>>
  ELSE IF Len(m.routes) = 0 THEN <<ValidationError("MISSING_ROUTES", 0, 0)>>
  ELSE ValidateRoutesFrom(m, 1)
         \o (IF m.fallback # NoFallback THEN validateRoute(m.fallback, FallbackAt) ELSE <<>>)

\* Registry.Load(m): whether compileRoute fails on one of the routes
LoadError(m) ==
  \E i \in 1..Len(m.routes) : CompileFails(RegexPattern(m.routes[i].pattern))

NoVal == [pc |-> "none", m |-> [version |-> "", routes |-> <<>>, fallback |-> NoFallback],
          errors |-> <<>>, loadErr |-> FALSE]

ValInit == \E m \in VManifests : val = [NoVal EXCEPT !.pc = "new", !.m = m]

ValParked == val = NoVal

\* err := ValidateManifest(m)
Validate ==
  /\ val.pc = "new"
  /\ val' = [val EXCEPT !.pc = "validated", !.errors = ValidateManifest(val.m)]
  /\ UNCHANGED notValVars

\* registry.Load(m) on a manifest that ValidateManifest accepted
ValLoad ==
  /\ val.pc = "validated"
  /\ val.errors = <<>>
  /\ val' = [val EXCEPT !.pc = "loaded", !.loadErr = LoadError(val.m)]
  /\ UNCHANGED notValVars

ValNext == Validate \/ ValLoad

(***************************************************************************)
(* Orchestrator.HandleChatStream and Agent.StreamWithTools.  The chunks    *)
(* handed to streamHandler are recorded in order.  The LLM stream ends     *)
(* (io.EOF or an error) after at most MaxChunks chunks.                    *)
(***************************************************************************)
StreamChunk(content, error, done) == [content |-> content, error |-> error, done |-> done]

\* the chunk sent on an error path that forgets to set Done
ErrorChunkNotDone(code) == StreamChunk("", code, FALSE)

\* StreamChunk{Error: err.Error(), Done: true}
ErrorChunk(code) == StreamChunk("", code, TRUE)

\* StreamChunk{Content: chunk, Done: false}
ContentChunk(content) == StreamChunk(content, "", FALSE)

\* StreamChunk{Done: true, SessionID: ..., Metadata: ...}
FinalChunk == StreamChunk("", "", TRUE)

\* the stream handler of POST /api/v1/chat/stream: the event written for a chunk
WriteEvent(chunk) ==
  IF chunk.error # "" THEN "error"
  ELSE IF chunk.done THEN "done"
  ELSE "message"

\* StreamWithTools: fullMessage before it is set (Role == "")
NoFullMessage == [role |-> "", toolCalls |-> <<>>]

\* received: the tool calls the chunks of the LLM stream carried, in order;
\* toolCalls: the variable of StreamWithTools; fullMessage: the chunk that came
\* with io.EOF, if it had a role; added: the message appended to the memory
IdleStream ==
  [pc |-> "idle", withSession |-> FALSE, chunks |-> <<>>, next |-> 0,
   received |-> <<>>, toolCalls |-> <<>>, fullMessage |-> NoFullMessage,
   added |-> NoFullMessage, agentErr |-> "", ret |-> ""]

\* StreamWithTools: toolCalls = chunk.ToolCalls
CollectToolCalls(toolCalls, chunkCalls) == chunkCalls

StreamInit == \E ws \in BOOLEAN : stream = [IdleStream EXCEPT !.pc = "validate", !.withSession = ws]

StreamParked == stream = IdleStream

\* steps 1, 2, 5, 6-7 and 8 of HandleChatStream: where the step is, where it
\* goes on success, the error it returns on failure
StreamSteps ==
  { <<"validate", "match", "MISSING_MESSAGE">>,
    <<"match", "build", "ROUTE_NOT_FOUND">>,
    <<"build", "memory", "CONTEXT_BUILD_FAILED">>,
    <<"memory", "agent", "SESSION_INACTIVE">>,
    <<"agent", "swt", "TOOL_LOAD_FAILED">> }

\* the error return of a step: the error chunk, then return err
StreamFail(code) ==
  [stream EXCEPT !.pc = "returned", !.ret = code, !.chunks = Append(@, ErrorChunk(code))]

StreamStep(step) ==
  /\ stream.pc = step[1]
  /\ step[1] = "memory" => stream.withSession
  /\ \/ stream' = [stream EXCEPT !.pc = step[2]]
     \/ stream' = StreamFail(step[3])
  /\ UNCHANGED notStreamVars

\* getOrCreateMemory without a session service: buffer memory, no error
StreamBufferMemory ==
  /\ stream.pc = "memory"
  /\ ~stream.withSession
  /\ stream' = [stream EXCEPT !.pc = "agent"]
  /\ UNCHANGED notStreamVars

\* StreamWithTools: memory.Add, memory.Messages, client.ChatStream
SWTStart ==
  /\ stream.pc = "swt"
  /\ \/ stream' = [stream EXCEPT !.pc = "next"]
     \/ stream' = [stream EXCEPT !.pc = "swtdone", !.agentErr = "STREAM_FAILED"]
  /\ UNCHANGED notStreamVars

\* StreamWithTools: one stream.Next() of the loop
SWTNext ==
  /\ stream.pc = "next"
  /\ \/ /\ stream.next < MaxChunks
        /\ \E content \in {"a", "b"} :
             stream' = [stream EXCEPT !.next = @ + 1, !.chunks = Append(@, ContentChunk(content))]
     \/ /\ stream.next < MaxChunks
        /\ LET calls == <<stream.next + 1>>
           IN stream' = [stream EXCEPT !.next = @ + 1, !.received = @ \o calls,
                                       !.toolCalls = CollectToolCalls(@, calls)]
     \/ stream' = [stream EXCEPT !.pc = "eof"]
     \/ \E calls \in {<<>>, stream.received} :
          stream' = [stream EXCEPT !.pc = "eof",
                                   !.fullMessage = [role |-> "assistant", toolCalls |-> calls]]
     \/ stream' = [stream EXCEPT !.pc = "swtdone", !.agentErr = "STREAM_FAILED"]
  /\ UNCHANGED notStreamVars

\* StreamWithTools after io.EOF: memory.Add(fullMessage), then the tool calls
SWTFinish ==
  /\ stream.pc = "eof"
  /\ LET full == IF stream.fullMessage.role = ""
                 THEN [role |-> "assistant", toolCalls |-> stream.toolCalls]
                 ELSE stream.fullMessage
     IN \/ stream' = [stream EXCEPT !.pc = "swtdone", !.agentErr = "MEMORY_FAILED"]
        \/ /\ Len(full.toolCalls) = 0
           /\ stream' = [stream EXCEPT !.pc = "swtdone", !.added = full]
        \/ /\ Len(full.toolCalls) > 0
           /\ stream' = [stream EXCEPT !.pc = "swtdone", !.added = full,
                           !.agentErr = "TOOL_FAILED",
                           !.chunks = Append(@, ContentChunk("[Processing tool calls...]"))]
        \/ /\ Len(full.toolCalls) > 0
           /\ stream' = [stream EXCEPT !.pc = "swtdone", !.added = full,
                           !.chunks = @ \o <<ContentChunk("[Processing tool calls...]"),
                                            ContentChunk("[Final response after tool calls]")>>]
  /\ UNCHANGED notStreamVars

\* step 9 after StreamWithTools returned: the error chunk or the final chunk
StreamFinish ==
  /\ stream.pc = "swtdone"
  /\ stream' = IF stream.agentErr # ""
               THEN [StreamFail(stream.agentErr) EXCEPT !.ret = "AGENT_EXECUTION_FAILED"]
               ELSE [stream EXCEPT !.pc = "returned", !.chunks = Append(@, FinalChunk)]
  /\ UNCHANGED notStreamVars

\* the body stream writer: the init event, then one event per chunk
EventStream == <<"init">> \o [i \in 1..Len(stream.chunks) |-> WriteEvent(stream.chunks[i])]

StreamNext ==
  \/ \E step \in StreamSteps : StreamStep(step)
  \/ StreamBufferMemory
  \/ SWTStart
  \/ SWTNext
  \/ SWTFinish
  \/ StreamFinish

(***************************************************************************)
(* Requests that Add to the same session concurrently.  SessionMemory.Add  *)
(* is two steps: FromLLMMessage stamps the row with time.Now(), then       *)
(* AddMessage inserts it; the insert is a round trip to the store, so the  *)
(* clock has advanced when it returns.  A reader runs GetMessages; rows    *)
(* with equal created_at come back in an order SQL leaves open.            *)
(***************************************************************************)
\* the message request r adds as its k-th
ConcMessage(r, k) == LLMMessage("user", <<r, k>>, <<>>, "")

\* SELECT ... ORDER BY created_at ASC: the orders the store may return
RECURSIVE GetMessagesOrders(_)
GetMessagesOrders(rows) ==
  IF rows = {} THEN {<<>>}
  ELSE UNION { {<<r>> \o rest : rest \in GetMessagesOrders(rows \ {r})}
               : r \in {r \in rows : \A q \in rows : r.created_at <= q.created_at} }

IdleConc ==
  [adders |-> [r \in 1..NumAdders |-> [pc |-> "idle", issued |-> 0, row |-> <<>>]],
   reads |-> <<>>]

ConcParked == conc = IdleConc

ConcInit ==
  /\ conc = IdleConc
  /\ db = CreateSession(EmptyDB, ContextSystemMessage, 1)
  /\ now = 2
  /\ buf = NewBufferMemory(LLMMessage("system", "", <<>>, ""), 0)
  /\ added = <<>>
  /\ obs = NoObs

\* SessionMemory.Add, first half: FromLLMMessage reads the clock
AddStamp(r) ==
  /\ conc.adders[r].pc = "idle"
  /\ conc.adders[r].issued < MaxConcAdds
  /\ conc' = [conc EXCEPT !.adders[r].pc = "stamped",
                          !.adders[r].issued = @ + 1,
                          !.adders[r].row =
                             FromLLMMessage(SessionID, ConcMessage(r, conc.adders[r].issued + 1), now)]
  /\ UNCHANGED <<db, now>>
  /\ UNCHANGED notConcVars

\* SessionMemory.Add, second half: repository.AddMessage
AddInsert(r) ==
  /\ conc.adders[r].pc = "stamped"
  /\ db' = RepoAddMessage(db, conc.adders[r].row)
  /\ now' = now + 1
  /\ conc' = [conc EXCEPT !.adders[r].pc = "idle"]
  /\ UNCHANGED notConcVars

\* a reader's GetMessages
ConcRead ==
  /\ Len(conc.reads) < MaxReads
  /\ \E order \in GetMessagesOrders({r \in db.rows : r.session_id = SessionID}) :
       conc' = [conc EXCEPT !.reads = Append(@, order)]
  /\ UNCHANGED <<db, now>>
  /\ UNCHANGED notConcVars

ConcNext ==
  \/ \E r \in 1..NumAdders : AddStamp(r)
  \/ \E r \in 1..NumAdders : AddInsert(r)
  \/ ConcRead

(***************************************************************************)
(* Template resolution: Builder.resolveStringTemplate, HTTPProvider.       *)
(* resolveTemplate and HTTPTool.resolveTemplate.  A string is a sequence   *)
(* of characters; "R" stands for the text `route.params.`.  The templates  *)
(* hold no `{env.` and no `{user.token}`, which the substitutions of       *)
(* environment variables and of the user token would act on.  The keys of  *)
(* the map are visited in the order Go's range happens to take.            *)
(***************************************************************************)
TplChars == {"{", "}", "a", "b", "R"}

TplKeys == {"a", "b"}

\* the string forms of the values: no brace in them
TplValues == {<<>>, <<"a">>, <<"b">>}

Templates == SeqsUpTo(TplChars, MaxTplLen)

TplParams == UNION {[ks -> TplValues] : ks \in SUBSET TplKeys}

\* the orders in which range may visit the keys of p
RangeOrders(p) ==
  {o \in SeqsUpTo(DOMAIN p, Cardinality(DOMAIN p)) :
     Len(o) = Cardinality(DOMAIN p) /\ \A i, j \in 1..Len(o) : i # j => o[i] # o[j]}

HasPrefixAt(str, i, old) ==
  /\ i + Len(old) - 1 <= Len(str)
  /\ SubSeq(str, i, i + Len(old) - 1) = old

\* strings.Contains
Contains(str, old) == \E i \in 1..Len(str) : HasPrefixAt(str, i, old)

\* strings.ReplaceAll for a non-empty old: leftmost matches, not overlapping
RECURSIVE ReplaceFrom(_, _, _, _)
ReplaceFrom(str, i, old, new) ==
  IF i > Len(str) THEN <<>>
  ELSE IF HasPrefixAt(str, i, old) THEN new \o ReplaceFrom(str, i + Len(old), old, new)
  ELSE <<str[i]>> \o ReplaceFrom(str, i + 1, old, new)

ReplaceAll(str, old, new) == ReplaceFrom(str, 1, old, new)

\* one range loop replacing pre + key + post by the key's value
RECURSIVE ReplaceKeys(_, _, _, _, _)
ReplaceKeys(str, p, order, pre, post) ==
  IF order = <<>> THEN str
  ELSE ReplaceKeys(ReplaceAll(str, pre \o <<Head(order)>> \o post, p[Head(order)]),
                   p, Tail(order), pre, post)

\* Builder.resolveStringTemplate: {key}, then {route.params.key}
resolveStringTemplate(template, p, order) ==
  ReplaceKeys(ReplaceKeys(template, p, order, <<"{">>, <<"}">>), p, order, <<"{", "R">>, <<"}">>)

\* HTTPProvider.resolveTemplate: {key}
ProviderResolveTemplate(template, p, order) ==
  ReplaceKeys(template, p, order, <<"{">>, <<"}">>)

\* HTTPTool.resolveTemplate, step 3: per key {key}, then {{key}}
RECURSIVE ToolResolveTemplate(_, _, _)
ToolResolveTemplate(template, p, order) ==
  IF order = <<>> THEN template
  ELSE LET key == Head(order)
           placeholder1 == <<"{", key, "}">>
           placeholder2 == <<"{", "{", key, "}", "}">>
           result == IF Contains(template, placeholder1) \/ Contains(template, placeholder2)
                     THEN ReplaceAll(ReplaceAll(template, placeholder1, p[key]), placeholder2, p[key])
                     ELSE template
       IN ToolResolveTemplate(result, p, Tail(order))

\* the three resolvers on the same arguments
ResolveAll(template, p, order) ==
  [builder |-> resolveStringTemplate(template, p, order),
   provider |-> ProviderResolveTemplate(template, p, order),
   tool |-> ToolResolveTemplate(template, p, order)]

NoTpl == [pc |-> "none", t |-> <<>>, p |-> EmptyMap, order |-> <<>>,
          once |-> [builder |-> <<>>, provider |-> <<>>, tool |-> <<>>],
          twice |-> [builder |-> <<>>, provider |-> <<>>, tool |-> <<>>]]

TplParked == tpl = NoTpl

TplInit ==
  \E t \in Templates, p \in TplParams :
    \E order \in RangeOrders(p) :
      tpl = [NoTpl EXCEPT !.pc = "new", !.t = t, !.p = p, !.order = order]

\* resolve(t, p)
TplResolve ==
  /\ tpl.pc = "new"
  /\ tpl' = [tpl EXCEPT !.pc = "once", !.once = ResolveAll(tpl.t, tpl.p, tpl.order)]
  /\ UNCHANGED notTplVars

\* resolve(resolve(t, p), p), each resolver on its own output
TplResolveAgain ==
  /\ tpl.pc = "once"
  /\ tpl' = [tpl EXCEPT !.pc = "twice",
               !.twice = [builder |-> resolveStringTemplate(tpl.once.builder, tpl.p, tpl.order),
                          provider |-> ProviderResolveTemplate(tpl.once.provider, tpl.p, tpl.order),
                          tool |-> ToolResolveTemplate(tpl.once.tool, tpl.p, tpl.order)]]
  /\ UNCHANGED notTplVars

TplNext == TplResolve \/ TplResolveAgain

(***************************************************************************)
(* Tool parameters with source "context": extractFromContext walks the     *)
(* workflow context along a dot path.  A value of the context is a map, a  *)
(* list or a leaf; a context path is its sequence of segments, with "{{"   *)
(* before and "}}" after them when it is written in braces.                *)
(***************************************************************************)
MaxSegments == 5

MapValue(fields) == [kind |-> "map", fields |-> fields]

ListValue(items) == [kind |-> "list", items |-> items]

Leaf(value) == [kind |-> "leaf", value |-> value]

Segments == {"backend", "orders", "items", "0", "id"}

ContextPaths ==
  LET plain == SeqsUpTo(Segments, MaxSegments) \ {<<>>}
  IN plain \cup {<<"{{">> \o q \o <<"}}">> : q \in plain}

\* workflow contexts whose orders hold a list of items, a map of items keyed "0", no items
WorkflowContexts ==
  { MapValue([k \in {"backend"} |-> MapValue([o \in {"orders"} |-> MapValue([i \in {"items"} |->
      ListValue(<<MapValue([d \in {"id"} |-> Leaf("o1")]),
                  MapValue([d \in {"id"} |-> Leaf("o2")])>>)])])]),
    MapValue([k \in {"backend"} |-> MapValue([o \in {"orders"} |-> MapValue([i \in {"items"} |->
      MapValue([n \in {"0"} |-> MapValue([d \in {"id"} |-> Leaf("m0")])])])])]),
    MapValue([k \in {"backend"} |-> MapValue([o \in {"orders"} |-> Leaf("none")])]) }

\* extractFromContext: TrimPrefix "{{", TrimSuffix "}}", strings.Split(path, ".")
PathParts(contextPath) ==
  LET a == IF Len(contextPath) > 0 /\ contextPath[1] = "{{" THEN Tail(contextPath)
           ELSE contextPath
  IN IF Len(a) > 0 /\ a[Len(a)] = "}}" THEN SubSeq(a, 1, Len(a) - 1) ELSE a

\* extractFromContext: the loop over the parts, from part i on
RECURSIVE ExtractFrom(_, _, _)
ExtractFrom(parts, i, current) ==
  IF i > Len(parts) THEN [ok |-> TRUE, value |-> current]
  ELSE IF current.kind = "map"
       THEN IF parts[i] \in DOMAIN current.fields
            THEN ExtractFrom(parts, i + 1, current.fields[parts[i]])
            ELSE [ok |-> FALSE, value |-> Leaf("segment not found")]
       ELSE [ok |-> FALSE, value |-> Leaf("cannot traverse non-map")]

extractFromContext(contextPath, workflowContext) ==
  ExtractFrom(PathParts(contextPath), 1, workflowContext)

\* HTTPTool.resolveParameters, case "context": the error, or the parameter set or skipped
ResolveContextParam(required, contextPath, workflowContext) ==
  LET r == extractFromContext(contextPath, workflowContext)
  IN IF r.ok THEN [err |-> "", set |-> TRUE, value |-> r.value]
     ELSE IF required THEN [err |-> "PARAMETER_RESOLUTION_ERROR", set |-> FALSE, value |-> r.value]
     ELSE [err |-> "", set |-> FALSE, value |-> r.value]

NoExt == [pc |-> "none", path |-> <<>>, ctx |-> Leaf(""), required |-> FALSE,
          res |-> [err |-> "", set |-> FALSE, value |-> Leaf("")]]

ExtParked == ext = NoExt

ExtInit ==
  \E path \in ContextPaths, c \in WorkflowContexts, required \in BOOLEAN :
    ext = [NoExt EXCEPT !.pc = "new", !.path = path, !.ctx = c, !.required = required]

ExtResolve ==
  /\ ext.pc = "new"
  /\ ext' = [ext EXCEPT !.pc = "done",
                        !.res = ResolveContextParam(ext.required, ext.path, ext.ctx)]
  /\ UNCHANGED notExtVars

ExtNext == ExtResolve

(***************************************************************************)
(* HTTPProvider.resolveEnvVars.  A string is a sequence of characters in   *)
(* which "E" stands for the text "{env."; the environment gives a value    *)
(* to the variable N and none to every other name.  One step of the loop   *)
(* is the search for the next placeholder or its replacement.              *)
(***************************************************************************)
MaxEnvLen == 4

EnvChars == {"E", "N", "}", "a"}

EnvInputs == SeqsUpTo(EnvChars, MaxEnvLen)

\* the values of N: unset, plain text, the placeholder of N itself
EnvValues == {<<>>, <<"a">>, <<"E", "N", "}">>}

\* os.Getenv
Getenv(environment, varName) == IF varName = <<"N">> THEN environment ELSE <<>>

\* strings.Index(str[from:], c) + from, as a position from 1; 0 for -1
IndexFrom(str, c, from) ==
  LET at == {i \in from..Len(str) : str[i] = c}
  IN IF at = {} THEN 0 ELSE CHOOSE i \in at : \A j \in at : i <= j

NoEnv == [pc |-> "none", environment |-> <<>>, result |-> <<>>, start |-> 0, end |-> 0]

EnvParked == env = NoEnv

EnvInit ==
  \E input \in EnvInputs, value \in EnvValues :
    env = [NoEnv EXCEPT !.pc = "find", !.environment = value, !.result = input]

\* resolveEnvVars: the head of the loop, the two searches and the two breaks
EnvFind ==
  /\ env.pc = "find"
  /\ LET start == IndexFrom(env.result, "E", 1)
         end == IF start = 0 THEN 0 ELSE IndexFrom(env.result, "}", start)
     IN env' = IF start = 0 \/ end = 0
               THEN [env EXCEPT !.pc = "done"]
               ELSE [env EXCEPT !.pc = "replace", !.start = start, !.end = end]
  /\ UNCHANGED notEnvVars

\* resolveEnvVars: result = result[:start] + varValue + result[end+1:], and again
EnvReplace ==
  /\ env.pc = "replace"
  /\ LET varName == SubSeq(env.result, env.start + 1, env.end - 1)
         varValue == Getenv(env.environment, varName)
     IN env' = [env EXCEPT !.pc = "find",
                           !.result = SubSeq(env.result, 1, env.start - 1) \o varValue
                                        \o SubSeq(env.result, env.end + 1, Len(env.result))]
  /\ UNCHANGED notEnvVars

EnvNext == EnvFind \/ EnvReplace

\* each specification runs one subsystem and leaves the others at rest
RegistryInit ==
  RegInit /\ AgentParked /\ CtxParked /\ MemParked /\ SessParked /\ ValParked /\ StreamParked
    /\ ConcParked /\ TplParked /\ ExtParked /\ EnvParked

AgentRunInit ==
  AgentInit /\ RegInit /\ CtxParked /\ MemParked /\ SessParked /\ ValParked /\ StreamParked
    /\ ConcParked /\ TplParked /\ ExtParked /\ EnvParked

ChatContextInit ==
  /\ chatReq \in ContextRequests
  /\ chat = IdleChat
  /\ build = IdleBuild
  /\ exec = IdleExec
  /\ workers = [w \in 1..MaxProviders |-> IdleWorker]
  /\ RegInit /\ AgentParked /\ MemParked /\ SessParked /\ ValParked /\ StreamParked
  /\ ConcParked /\ TplParked /\ ExtParked /\ EnvParked

BuilderInit ==
  CtxInit /\ RegInit /\ AgentParked /\ MemParked /\ SessParked /\ ValParked /\ StreamParked
    /\ ConcParked /\ TplParked /\ ExtParked /\ EnvParked

MemoryInit ==
  MemInit /\ RegInit /\ AgentParked /\ CtxParked /\ SessParked /\ ValParked /\ StreamParked
    /\ ConcParked /\ TplParked /\ ExtParked /\ EnvParked

SessionInit ==
  SessInit /\ RegInit /\ AgentParked /\ CtxParked /\ ValParked /\ StreamParked
    /\ ConcParked /\ TplParked /\ ExtParked /\ EnvParked

ValidateInit ==
  ValInit /\ RegInit /\ AgentParked /\ CtxParked /\ MemParked /\ SessParked /\ StreamParked
    /\ ConcParked /\ TplParked /\ ExtParked /\ EnvParked

SpecValidate == ValidateInit /\ [][ValNext]_vars

StreamingInit ==
  StreamInit /\ RegInit /\ AgentParked /\ CtxParked /\ MemParked /\ SessParked /\ ValParked
    /\ ConcParked /\ TplParked /\ ExtParked /\ EnvParked

SpecStream == StreamingInit /\ [][StreamNext]_vars

\* every step of the handler, of the LLM stream and of the tools returns
SpecStreamFair == SpecStream /\ WF_vars(StreamNext)

ConcurrentInit ==
  ConcInit /\ RegInit /\ AgentParked /\ CtxParked /\ SessParked /\ ValParked /\ StreamParked
    /\ TplParked /\ ExtParked /\ EnvParked

SpecSessionConc == ConcurrentInit /\ [][ConcNext]_vars

ExtractInit ==
  ExtInit /\ RegInit /\ AgentParked /\ CtxParked /\ MemParked /\ SessParked /\ ValParked
    /\ StreamParked /\ ConcParked /\ TplParked /\ EnvParked

EnvVarsInit ==
  EnvInit /\ RegInit /\ AgentParked /\ CtxParked /\ MemParked /\ SessParked /\ ValParked
    /\ StreamParked /\ ConcParked /\ TplParked /\ ExtParked

TemplateInit ==
  TplInit /\ RegInit /\ AgentParked /\ CtxParked /\ MemParked /\ SessParked /\ ValParked
    /\ StreamParked /\ ConcParked /\ ExtParked /\ EnvParked

SpecExtract == ExtractInit /\ [][ExtNext]_vars

SpecEnvVars == EnvVarsInit /\ [][EnvNext]_vars

\* the loop of resolveEnvVars runs on as long as it has a step to take
SpecEnvVarsFair == SpecEnvVars /\ WF_vars(EnvNext)

SpecTemplate == TemplateInit /\ [][TplNext]_vars

SpecSession == SessionInit /\ [][SessNext]_vars

SpecMemory == MemoryInit /\ [][MemNext]_vars

SpecBuffer == MemoryInit /\ [][BufferNext]_vars

SpecRegistry == RegistryInit /\ [][RegNext]_vars

SpecRegistryConc == RegistryInit /\ [][RegConcNext]_vars

SpecAgent == AgentRunInit /\ [][AgentNext]_vars

SpecBuilder == BuilderInit /\ [][CtxNext]_vars

CtxCancelNext == CtxNext \/ CtxCancel

SpecChatContext == ChatContextInit /\ [][CtxNext]_vars

SpecBuilderCancel == BuilderInit /\ [][CtxCancelNext]_vars

\* every LLM call, tool call and memory operation returns
SpecAgentFair == SpecAgent /\ WF_vars(AgentNext)

AgentRunsNext == AgentNext \/ RunAgain

SpecAgentRuns == AgentRunInit /\ [][AgentRunsNext]_vars

(***************************************************************************)
(* C1 (as amended).  After a successful Load(m), Match(P) returns route R  *)
(* without error iff R is the first route of m, in declared order, whose   *)
(* pattern matches P; the returned params bind every parameter name of R   *)
(* to the segment captured at the LAST position where that name occurs in  *)
(* the pattern (so the i-th name is bound to the i-th captured segment     *)
(* whenever the names of the pattern are distinct).                        *)
(***************************************************************************)
LastOccurrence(pattern, n) ==
  CHOOSE k \in 1..Len(ParamSegs(pattern)) :
    /\ SegName(pattern, k) = n
    /\ \A l \in 1..Len(ParamSegs(pattern)) : SegName(pattern, l) = n => l <= k

C1_FirstMatchLastWins ==
  LoadedThenMatched =>
    LET m == lastLoad.m
        P == lastMatch.path
        res == lastMatch.res
    IN \A i \in 1..Len(m.routes) :
         LET pat == m.routes[i].pattern
             names == {SegName(pat, k) : k \in 1..Len(ParamSegs(pat))}
         IN /\ (res.err = "none" /\ res.route = m.routes[i]) <=> IsFirstHit(m, P, i)
            /\ IsFirstHit(m, P, i) =>
                 /\ DOMAIN res.params = names
                 /\ \A n \in names : res.params[n] = SegCapture(pat, P, LastOccurrence(pat, n))

\* C1 as stated: the i-th parameter name is bound to the i-th captured segment
C1_Original_Positional ==
  LoadedThenMatched =>
    LET m == lastLoad.m
        P == lastMatch.path
        res == lastMatch.res
    IN \A i \in 1..Len(m.routes) :
         LET pat == m.routes[i].pattern
         IN /\ (res.err = "none" /\ res.route = m.routes[i]) <=> IsFirstHit(m, P, i)
            /\ IsFirstHit(m, P, i) =>
                 \A k \in 1..Len(ParamSegs(pat)) :
                   /\ SegName(pat, k) \in DOMAIN res.params
                   /\ res.params[SegName(pat, k)] = SegCapture(pat, P, k)

\* a Match that returned the second declared route, with two captured segments
C1_Witness ==
  /\ LoadedThenMatched
  /\ Len(lastLoad.m.routes) >= 2
  /\ lastMatch.res.err = "none"
  /\ lastMatch.res.route = lastLoad.m.routes[2]
  /\ Len(ParamSegs(lastMatch.res.route.pattern)) = 2
  /\ Hits(lastLoad.m, lastMatch.path) = {2}

(***************************************************************************)
(* C2.  For a loaded registry, Match(P) returns the fallback route only    *)
(* when no declared route matches P, and then with an empty params map;    *)
(* when no declared route matches, the fallback is returned if there is    *)
(* one, and otherwise Match returns the not-found error and no RouteMatch. *)
(***************************************************************************)
C2_FallbackOnlyOnMiss ==
  LoadedThenMatched =>
    LET m == lastLoad.m
        P == lastMatch.path
        res == lastMatch.res
    IN /\ (res.err = "none" /\ m.fallback # NilRoute /\ res.route = m.fallback)
            => (Hits(m, P) = {} /\ res.params = EmptyMap)
       /\ (Hits(m, P) = {} /\ m.fallback # NilRoute)
            => (res.err = "none" /\ res.route = m.fallback)
       /\ (Hits(m, P) = {} /\ m.fallback = NilRoute)
            => (res.err = "route_not_found" /\ res.route = NilRoute)

\* a Match that fell through every declared route of a manifest with a fallback
C2_Witness ==
  /\ LoadedThenMatched
  /\ lastLoad.m.fallback # NilRoute
  /\ lastMatch.res.route = lastLoad.m.fallback
  /\ Hits(lastLoad.m, lastMatch.path) = {}

\* ... and of a manifest without one
C2_WitnessNotFound ==
  /\ LoadedThenMatched
  /\ lastLoad.m.fallback = NilRoute
  /\ lastMatch.res.err = "route_not_found"

(***************************************************************************)
(* C3.  With Load running concurrently with Match calls, every Match       *)
(* resolves against the complete state of one manifest (all its routes     *)
(* and its fallback) or against the never-loaded state: its result is the  *)
(* result that one such complete state gives for the path.  (The claim     *)
(* names the state before and the state after the concurrent Load; any     *)
(* complete state is admitted here, which asks less.)                      *)
(***************************************************************************)
CompleteStates ==
  {[manifest |-> NilManifest, routes |-> <<>>, fallback |-> NilRoute]}
  \cup {[manifest |-> m, routes |-> CompileFrom(m, 1, <<>>).routes, fallback |-> m.fallback] :
          m \in {x \in ConcManifests : ~CompileFrom(x, 1, <<>>).err}}

Resolved(r) == matcher[r].pc = "idle" /\ matcher[r].res.err # "pending"

C3_Original_OldOrNew ==
  \A r \in 1..NumMatchers :
    Resolved(r) =>
      \E st \in CompleteStates :
        matcher[r].res = MatchResult(st.manifest, st.routes, st.fallback, matcher[r].path)

(***************************************************************************)
(* C4.  One Agent.Run makes at most maxTotalIterations + 1 LLM calls and   *)
(* at most (maxTotalIterations + 1) * toolsPerCall tool invocations, where *)
(* toolsPerCall is the largest number of tool calls in one LLM response;   *)
(* for every LLM behaviour and every configuration with limits >= 0.       *)
(***************************************************************************)
ToolsPerCall ==
  LET counts == {0} \cup {mem[j].calls : j \in {l \in 1..Len(mem) : mem[l].role = "assistant"}}
  IN CHOOSE c \in counts : \A d \in counts : d <= c

C5_RunReturns == <>(agent.pc = "done")

\* a Run ended by the hard limit: every LLM response asked for tools
C5_Witness ==
  /\ agent.pc = "done"
  /\ agent.result = "iterations_exceeded"
  /\ agentCfg.maxTotalIterations >= 2
  /\ \A j \in 1..Len(mem) : mem[j].role = "assistant" => mem[j].calls > 0

LoopLLMCalls == Len(SelectSeq(trace, LAMBDA e : e.op = "llm" /\ e.loop))

C7_Original_NoneIsTerminal ==
  /\ \A j \in 1..Len(trace) :
       (trace[j].op = "llm" /\ trace[j].choice = "none") => j = Len(trace)
  /\ LoopLLMCalls <= agentCfg.maxAutoIterations + 1

(***************************************************************************)
(* C8.  After the context build finishes, for every provider of the        *)
(* route, backend[name] is present iff the provider's condition was        *)
(* absent or true and its execution returned a result; and when a          *)
(* required provider failed, the build call returned an error.             *)
(***************************************************************************)
Dispatched(i) == workers[i].pc # "idle"

Succeeded(i) == workers[i].pc = "done" /\ workers[i].ok

Failed(i) == workers[i].pc = "done" /\ ~workers[i].ok

C8_Original_PresentIffExecuted ==
  build.pc = "returned" =>
    \A i \in 1..Len(chatReq.providers) :
      LET cfg == chatReq.providers[i]
      IN /\ cfg.name \in DOMAIN build.backend
              <=> (~Skipped(cfg, chatReq.user) /\ Succeeded(i))
         /\ (~cfg.optional /\ Failed(i)) => build.err # "none"

(***************************************************************************)
(* C9.  When a required provider fails during Build, Build returns the     *)
(* multi-provider-failed error and HandleChat fails with a 502-class       *)
(* error without running the agent.                                        *)
(***************************************************************************)
RequiredFailed ==
  \E i \in 1..Len(chatReq.providers) : ~chatReq.providers[i].optional /\ Failed(i)

C9_Original_RequiredFailureFailsChat ==
  /\ (build.pc = "returned" /\ RequiredFailed) => build.err = "MULTIPLE_PROVIDERS_FAILED"
  /\ (chat.pc = "done" /\ RequiredFailed) => (chat.status = 502 /\ ~chat.agentRan)

C11_Original_NoLateResult ==
  build.pc = "returned" =>
    \A w \in 1..Len(chatReq.providers) :
      (workers[w].late /\ workers[w].ok) =>
        ~(/\ chatReq.providers[w].name \in DOMAIN build.backend
          /\ build.backend[chatReq.providers[w].name] = w)

(***************************************************************************)
(* C12.  On both memories, after any Add calls, system-role messages       *)
(* included, Clear() followed by Messages() returns exactly the seed       *)
(* system message, or the empty list when there is no system message.      *)
(* The session is asked for this only when its seed is non-empty, which    *)
(* asks less than the claim.                                               *)
(***************************************************************************)
SeedOnly == IF buf.systemMessage.content # "" THEN <<buf.systemMessage>> ELSE <<>>

C12_Original_ClearLeavesSeed ==
  (obs.done /\ added = <<>>) =>
    /\ obs.buffer = SeedOnly
    /\ buf.systemMessage.content # "" => obs.session = SeedOnly

(***************************************************************************)
(* C13.  With a non-empty system message configured, Messages() returns    *)
(* it first, followed by the messages added since the last Clear in the    *)
(* order of the Add calls; for a capped BufferMemory, by those of them     *)
(* that the cap retains (C14).                                             *)
(***************************************************************************)
LastN(seq, n) == IF Len(seq) > n THEN SubSeq(seq, Len(seq) - n + 1, Len(seq)) ELSE seq

Retained == IF buf.maxMessages > 0 THEN LastN(added, buf.maxMessages) ELSE added

C13_Original_SeedThenInsertionOrder ==
  (obs.done /\ buf.systemMessage.content # "") =>
    /\ obs.buffer = <<buf.systemMessage>> \o Retained
    /\ obs.session = <<buf.systemMessage>> \o added

(***************************************************************************)
(* C14.  For a BufferMemory with cap N > 0, after every Add the stored     *)
(* conversation is exactly the N most recently added messages, or all of   *)
(* them when fewer were added, in insertion order; the system message is   *)
(* never dropped: it stays the one the memory was created with and heads   *)
(* every Messages() result.                                                *)
(***************************************************************************)
C14_CapKeepsNewest ==
  buf.maxMessages > 0 =>
    /\ buf.messages = LastN(added, buf.maxMessages)
    /\ buf.systemMessage.content = db.session.system_message
    /\ (obs.done /\ buf.systemMessage.content # "") =>
         (Len(obs.buffer) = Len(buf.messages) + 1 /\ Head(obs.buffer) = buf.systemMessage)

\* a capped buffer that has dropped its oldest message
C14_Witness ==
  /\ buf.maxMessages = MaxCap
  /\ Len(added) > MaxCap
  /\ buf.systemMessage.content # ""
  /\ obs.done
  /\ Len(obs.buffer) = MaxCap + 1

(***************************************************************************)
(* C15.  An uncapped BufferMemory and a SessionMemory seeded with the      *)
(* same system message return the same list from every Messages() call,    *)
(* for every sequence of Add, Clear and Messages applied to both.  Asked   *)
(* here for a non-empty system message only, which asks less.              *)
(***************************************************************************)
C15_Original_SameMessages ==
  (obs.done /\ buf.maxMessages = 0 /\ buf.systemMessage.content # "") =>
    obs.buffer = obs.session

(***************************************************************************)
(* C16.  Right after SessionService.CreateSession(seed) has succeeded,     *)
(* reading the session's messages returns exactly one message, of role     *)
(* "system" and with the seed's content, and the session is active.        *)
(***************************************************************************)
C16_CreateYieldsSeedOnly ==
  (sess.last = "create" /\ sess.created = "ok") =>
    /\ Len(SessionMessages(db)) = 1
    /\ SessionMessages(db)[1].role = "system"
    /\ SessionMessages(db)[1].content = sess.seed.content
    /\ db.session.exists
    /\ db.session.is_active

C16_Witness ==
  /\ sess.last = "create"
  /\ sess.created = "ok"
  /\ sess.seed.content = "sys"
  /\ SessionMessages(db) = <<sess.seed>>

(***************************************************************************)
(* C17.  A HandleChat whose request names a session that was soft-deleted  *)
(* before the request arrived never reaches the context injection or the   *)
(* agent and appends no message to the session; when it has passed the     *)
(* steps before the memory step it fails there with SESSION_INACTIVE.      *)
(***************************************************************************)
C17_InactiveSessionRejected ==
  (sess.pc # "idle" /\ sess.req.sessionID = SessionID /\ sess.inactiveAtStart) =>
    /\ sess.pc \in {"memory", "done"}
    /\ ~sess.agentRan
    /\ db.rows = sess.rowsAtStart
    /\ sess.pc = "done" =>
         /\ sess.err # ""
         /\ sess.atMemory => sess.err = "SESSION_INACTIVE"

C17_Witness ==
  /\ sess.pc = "done"
  /\ sess.req.sessionID = SessionID
  /\ ShouldInject(sess.req)
  /\ sess.inactiveAtStart
  /\ sess.atMemory
  /\ sess.err = "SESSION_INACTIVE"
  /\ sess.rowsAtStart # {}

(***************************************************************************)
(* The validation rules as the specification lists them, as the set of     *)
(* violations of a manifest.  CheckedViolations leaves out the two rules   *)
(* ValidateManifest has no test for: that a pattern compiles, and the      *)
(* leading "/" of the fallback's pattern.                                  *)
(***************************************************************************)
ProviderViolations(r, at) ==
  UNION { (IF r.providers[k].type = "" THEN {ValidationError("MISSING_PROVIDER_TYPE", at, k)} ELSE {})
          \cup (IF r.providers[k].name = "" THEN {ValidationError("MISSING_PROVIDER_NAME", at, k)} ELSE {})
          \cup (IF r.providers[k].type = "http" /\ r.providers[k].url = ""
                THEN {ValidationError("MISSING_PROVIDER_URL", at, k)} ELSE {})
          : k \in 1..Len(r.providers) }

RouteViolations(r, at) ==
  (IF r.pattern = <<>> THEN {ValidationError("MISSING_ROUTE_PATTERN", at, 0)} ELSE {})
    \cup (IF r.name = "" THEN {ValidationError("MISSING_ROUTE_NAME", at, 0)} ELSE {})
    \cup ProviderViolations(r, at)

PrefixViolations(r, at) ==
  IF r.pattern # <<>> /\ Head(r.pattern) # "/"
  THEN {ValidationError("INVALID_PATTERN", at, 0)} ELSE {}

CompileViolations(r, at) ==
  IF CompileFails(RegexPattern(r.pattern))
  THEN {ValidationError("PATTERN_NOT_COMPILABLE", at, 0)} ELSE {}

DuplicateViolations(m) ==
  { ValidationError("DUPLICATE_ROUTE_NAME", i, 0) :
      i \in {i \in 1..Len(m.routes) : \E j \in 1..(i - 1) : m.routes[j].name = m.routes[i].name} }

CheckedViolations(m) ==
  (IF m.version = "" THEN {ValidationError("MISSING_VERSION", 0, 0)} ELSE {})
    \cup (IF Len(m.routes) = 0 THEN {ValidationError("MISSING_ROUTES", 0, 0)} ELSE {})
    \cup UNION {RouteViolations(m.routes[i], i) \cup PrefixViolations(m.routes[i], i)
                  : i \in 1..Len(m.routes)}
    \cup DuplicateViolations(m)
    \cup (IF m.fallback # NoFallback THEN RouteViolations(m.fallback, FallbackAt) ELSE {})

StatedViolations(m) ==
  CheckedViolations(m)
    \cup UNION {CompileViolations(m.routes[i], i) : i \in 1..Len(m.routes)}
    \cup (IF m.fallback # NoFallback
          THEN PrefixViolations(m.fallback, FallbackAt) \cup CompileViolations(m.fallback, FallbackAt)
          ELSE {})

Reported == {val.errors[i] : i \in 1..Len(val.errors)}

(***************************************************************************)
(* C18 (as stated; refuted).  ValidateManifest(m) returns nil iff m breaks *)
(* none of the stated rules, and a manifest it accepted is loaded by       *)
(* Registry.Load without error.                                            *)
(***************************************************************************)
C18_Original_AcceptsIffRulesHold ==
  /\ val.pc \in {"validated", "loaded"} => (val.errors = <<>> <=> StatedViolations(val.m) = {})
  /\ val.pc = "loaded" => ~val.loadErr

(***************************************************************************)
(* C19 (as stated; refuted).  The error ValidateManifest returns reports   *)
(* every rule the manifest breaks, among the rules it tests.               *)
(***************************************************************************)
C19_Original_EveryViolationReported ==
  val.pc \in {"validated", "loaded"} => CheckedViolations(val.m) \subseteq Reported

(***************************************************************************)
(* C20.  A HandleChatStream call hands streamHandler exactly one chunk     *)
(* with done = true; that chunk is the last one, sent as the call returns, *)
(* and every chunk before it (the content chunks) has done = false; and    *)
(* every call does return.                                                 *)
(***************************************************************************)
DoneChunks == {i \in 1..Len(stream.chunks) : stream.chunks[i].done}

C20_Safe ==
  /\ stream.pc # "returned" => DoneChunks = {}
  /\ stream.pc = "returned" => DoneChunks = {Len(stream.chunks)} /\ Len(stream.chunks) >= 1
  /\ \A i \in 1..Len(stream.chunks) : stream.chunks[i].content # "" => ~stream.chunks[i].done

C20_ExactlyOneFinalChunk == [](C20_Safe) /\ <>(stream.pc = "returned" /\ Cardinality(DoneChunks) = 1)

C20_Witness ==
  /\ stream.pc = "returned"
  /\ Len(stream.chunks) >= 3
  /\ stream.chunks[1].content # ""
  /\ stream.agentErr # ""
  /\ DoneChunks = {Len(stream.chunks)}

(***************************************************************************)
(* C21 (as stated; refuted).  When a streaming chat request has failed,    *)
(* the events written to the client contain an "error" event followed by   *)
(* a "done" event.                                                         *)
(***************************************************************************)
C21_Original_ErrorThenDone ==
  (stream.pc = "returned" /\ stream.ret # "") =>
    \E i, j \in 1..Len(EventStream) :
      /\ i < j
      /\ EventStream[i] = "error"
      /\ EventStream[j] = "done"

(***************************************************************************)
(* C22.  Session resumption: the session was created with its seed, and    *)
(* the one HandleChat on it that built a non-empty backend context,        *)
(* injected it and got a tool-free answer has returned.  The session's     *)
(* messages are then: seed, injected context message, user message,        *)
(* assistant message, in that order.                                       *)
(***************************************************************************)
C22_Resumed ==
  /\ sess.created = "ok"
  /\ sess.chats = 1
  /\ sess.pc = "done"
  /\ sess.err = ""
  /\ sess.req.sessionID = SessionID
  /\ ShouldInject(sess.req)
  /\ sess.contextInjected

PositionIn(read, row) == CHOOSE i \in 1..Len(read) : read[i] = row

RowsOf(read) == {read[i] : i \in 1..Len(read)}

C23_Original_OneTotalOrder ==
  /\ \A a, b \in 1..Len(conc.reads) :
       \A x, y \in RowsOf(conc.reads[a]) \cap RowsOf(conc.reads[b]) :
         PositionIn(conc.reads[a], x) < PositionIn(conc.reads[a], y)
           => PositionIn(conc.reads[b], x) < PositionIn(conc.reads[b], y)
  /\ \A a \in 1..Len(conc.reads) :
       \A x, y \in RowsOf(conc.reads[a]) :
         (x.role = "user" /\ y.role = "user"
            /\ x.content[1] = y.content[1] /\ x.content[2] < y.content[2])
           => PositionIn(conc.reads[a], x) < PositionIn(conc.reads[a], y)

(***************************************************************************)
(* C24 (as stated; refuted).  Resolving the output of a resolution again,  *)
(* with the same parameter map (whose values hold no brace) and the same   *)
(* key order, changes nothing, for each of the three resolvers.            *)
(***************************************************************************)
C24_Original_Idempotent == tpl.pc = "twice" => tpl.twice = tpl.once

(***************************************************************************)
(* C25 (as stated; refuted).  For a key k of the parameter map, a template *)
(* holding {{k}} resolves to what the same template with {k} in its place  *)
(* resolves to, in HTTPTool.resolveTemplate.                               *)
(***************************************************************************)
SingleBrace(template, k) == ReplaceAll(template, <<"{", "{", k, "}", "}">>, <<"{", k, "}">>)

C25_Original_DoubleBraceAlias ==
  tpl.pc = "once" =>
    \A k \in DOMAIN tpl.p :
      Contains(tpl.t, <<"{", "{", k, "}", "}">>) =>
        tpl.once.tool = ToolResolveTemplate(SingleBrace(tpl.t, k), tpl.p, tpl.order)

(***************************************************************************)
(* The order in which a returned Run has appended to the memory: the user  *)
(* message, the first assistant response, then per loop iteration one tool *)
(* reply for each tool call of the preceding assistant message, in the     *)
(* order of the calls, followed by the next assistant response.            *)
(***************************************************************************)
RECURSIVE RepliesThenAnswer(_)
RepliesThenAnswer(i) ==
  IF i = Len(mem) THEN TRUE
  ELSE LET c == mem[i].calls
       IN /\ c > 0
          /\ i + c + 1 <= Len(mem)
          /\ \A k \in 1..c : mem[i + k].role = "tool" /\ mem[i + k].idx = k
          /\ mem[i + c + 1].role = "assistant"
          /\ RepliesThenAnswer(i + c + 1)

RunAppendsInOrder ==
  /\ Len(mem) >= 3
  /\ mem[2].role = "user"
  /\ mem[3].role = "assistant"
  /\ RepliesThenAnswer(3)
  /\ mem[Len(mem)].role = "assistant"

(***************************************************************************)
(* C26 (refuted).  When Run has returned a response, the memory holds the  *)
(* appends in that order and its last message is an assistant message      *)
(* without tool calls.                                                     *)
(***************************************************************************)
C26_Original_LastHasNoToolCalls ==
  (agent.pc = "done" /\ agent.result = "ok") =>
    /\ RunAppendsInOrder
    /\ mem[Len(mem)].calls = 0

RepliedBefore(i, j) ==
  /\ j > i + mem[i].calls
  /\ \A k \in 1..mem[i].calls : mem[i + k].role = "tool" /\ mem[i + k].idx = k

C28_Original_ToolCallsAnswered ==
  agentCfg.tools = "some" =>
    \A i \in 1..Len(mem) : \A j \in (i + 1)..Len(mem) :
      (mem[i].role = "assistant" /\ mem[i].calls > 0
         /\ mem[j].role \in {"user", "assistant"})
        => RepliedBefore(i, j)

(***************************************************************************)
(* C29 (refuted).  A Load that returns an error leaves the registry as it  *)
(* was: on every path, Match gives after the failed Load the result it     *)
(* gave before it.                                                         *)
(***************************************************************************)
FailedLoadStep == lastLoad' # lastLoad /\ lastLoad'.err

C29_Original_FailedLoadKeepsState ==
  [][FailedLoadStep =>
       \A path \in Paths :
         MatchResult(manifest', routes', fallback', path)
           = MatchResult(manifest, routes, fallback, path)]_vars

(***************************************************************************)
(* C30.  The provider fan-out returns only after every goroutine it        *)
(* dispatched has finished; every write to the result map and to the       *)
(* failure list is the write of the one goroutine that holds the mutex;    *)
(* and once the fan-out has returned, the result map, the failure list     *)
(* and the backend map the build returned no longer change.                *)
(***************************************************************************)
FanOutReturned == build.pc \in {"executed", "returned"}

AllGoroutinesFinished ==
  \A w \in DOMAIN workers : workers[w].pc \in {"idle", "done"}

MutexHeldByOne ==
  \A w \in DOMAIN workers :
    workers[w].pc = "locked" <=> exec.mu = w

SharedWrite ==
  exec'.results # exec.results \/ exec'.failedProviders # exec.failedProviders

WriteUnderMutex ==
  SharedWrite =>
    \E w \in DOMAIN workers :
      /\ exec.mu = w
      /\ workers[w].pc = "locked"
      /\ workers'[w].pc = "unlocked"
      /\ \A v \in DOMAIN workers \ {w} : workers'[v] = workers[v]

NoWriteAfterReturn ==
  /\ FanOutReturned => ~SharedWrite
  /\ build.pc = "returned" => build'.backend = build.backend

C30_FanOutJoinsUnderMutex ==
  /\ [](FanOutReturned => AllGoroutinesFinished)
  /\ []MutexHeldByOne
  /\ [][WriteUnderMutex /\ NoWriteAfterReturn]_vars

\* a returned build whose goroutines wrote both a result and a failure
C30_Witness ==
  /\ build.pc = "returned"
  /\ DOMAIN build.backend # {}
  /\ exec.failedProviders # <<>>
  /\ \A w \in 1..Len(chatReq.providers) : workers[w].pc = "done"
  /\ Len(chatReq.providers) = MaxProviders

(***************************************************************************)
(* C31 (refuted).  The backend map does not depend on the order in which   *)
(* the provider goroutines complete: whenever two goroutines have their    *)
(* results and wait for the mutex, recording the two results in either     *)
(* order gives the same result map.                                        *)
(***************************************************************************)
ReadyToStore(w) == workers[w].pc = "lock" /\ workers[w].ok

StoredInOrder(w, v) ==
  StoreResult(StoreResult(exec.results, chatReq.providers[w].name, w),
              chatReq.providers[v].name, v)

C31_Original_OrderIndependent ==
  \A w, v \in DOMAIN workers :
    (w # v /\ ReadyToStore(w) /\ ReadyToStore(v)) =>
      StoredInOrder(w, v) = StoredInOrder(v, w)

(***************************************************************************)
(* C32.  In a chat request the full context build runs, and with it the    *)
(* route's providers that are not skipped, iff the request set             *)
(* should_fetch_context or carried a non-empty route_params map;           *)
(* otherwise no provider is called and the context has an empty backend    *)
(* map and a nil frontend.                                                 *)
(***************************************************************************)
ContextAsked == chatReq.shouldFetchContext \/ DOMAIN chatReq.routeParams # {}

NoProviderCalled ==
  /\ \A w \in DOMAIN workers : workers[w].pc = "idle"
  /\ exec = IdleExec
  /\ build = IdleBuild

EveryProviderCalled ==
  \A w \in 1..Len(chatReq.providers) :
    ~Skipped(chatReq.providers[w], chatReq.user) => workers[w].pc = "done"

C32_FullBuildIffAsked ==
  (chat.context.built # "none" \/ chat.pc = "build" \/ chat.code = "CONTEXT_BUILD_FAILED") =>
    /\ (build.pc # "idle") <=> ContextAsked
    /\ ~ContextAsked =>
         /\ NoProviderCalled
         /\ chat.context.built = "minimal"
         /\ chat.context.backend = EmptyMap
         /\ chat.context.frontend = "nil"
    /\ ContextAsked =>
         /\ chat.context.built \in {"none", "full"}
         /\ chat.context.built = "full" =>
              /\ EveryProviderCalled
              /\ chat.context.backend = exec.results
              /\ chat.context.frontend = chatReq.frontend

\* a context built because of the route params alone, with a provider's data in it
C32_Witness ==
  /\ chat.pc = "done"
  /\ ~chatReq.shouldFetchContext
  /\ DOMAIN chatReq.routeParams # {}
  /\ chat.context.built = "full"
  /\ DOMAIN chat.context.backend # {}
  /\ chat.context.frontend = "page"

(***************************************************************************)
(* C33.  In a chat request that has passed step 7, the append of the       *)
(* 'UPDATED CONTEXT' system message was attempted iff the request carried  *)
(* a session id, the full context was built and its backend map is not     *)
(* empty; the request has added one such message iff the append            *)
(* succeeded, which is what context_injected reports; the message          *)
(* precedes the user message of the request; and the request went on to    *)
(* the agent whether or not the append succeeded.                          *)
(***************************************************************************)
PastInjection ==
  \/ sess.pc \in {"agent", "run"}
  \/ sess.pc = "done" /\ sess.err \in {"", "TOOL_LOAD_FAILED", "AGENT_EXECUTION_FAILED"}

RowsOfRequest == db.rows \ sess.rowsAtStart

InjectedRows ==
  {r \in RowsOfRequest : r.role = "system" /\ r.content = ContextInjectionMessage.content}

C33_InjectionIffFreshBackend ==
  PastInjection =>
    /\ sess.injectTried <=> (sess.req.sessionID # "" /\ sess.req.built
                               /\ sess.req.backendKeys > 0)
    /\ sess.contextInjected => sess.injectTried
    /\ Cardinality(InjectedRows) = IF sess.contextInjected THEN 1 ELSE 0
    /\ \A r \in InjectedRows : \A u \in RowsOfRequest :
         u.role = "user" => r.id < u.id
    /\ sess.agentRan => \E u \in RowsOfRequest : u.role = "user"

\* a request that succeeded although the append of its context message failed
C33_Witness ==
  /\ sess.pc = "done"
  /\ sess.err = ""
  /\ sess.agentRan
  /\ sess.injectTried
  /\ ~sess.contextInjected
  /\ InjectedRows = {}

(***************************************************************************)
(* C34 (refuted).  Once the session has been deleted, no message is        *)
(* appended to it any more.                                                *)
(***************************************************************************)
SessionDeleted == db.session.exists /\ ~db.session.is_active

C34_Original_NoAddAfterDelete ==
  [][SessionDeleted => db'.rows \ db.rows = {}]_vars

(***************************************************************************)
(* C35 (refuted).  Session creation is all-or-nothing: a CreateSession     *)
(* that returned an error has left no session row, and every session row   *)
(* in the store has its seed system message as its first message.          *)
(***************************************************************************)
C35_Original_CreateAllOrNothing ==
  /\ (sess.last = "create" /\ sess.created # "ok") => ~db.session.exists
  /\ db.session.exists =>
       /\ Len(SessionMessages(db)) >= 1
       /\ SessionMessages(db)[1].role = "system"

(***************************************************************************)
(* C36 (refuted).  A BufferMemory with cap N > 0 never holds more than N   *)
(* messages besides the system message, after any sequence of Add, Clear   *)
(* and Replace.                                                            *)
(***************************************************************************)
C36_Original_CountWithinCap ==
  buf.maxMessages > 0 => BufferCount(buf) <= buf.maxMessages

(***************************************************************************)
(* C37.  A chat request with an empty message or an empty route path is    *)
(* rejected by the validation, with MISSING_MESSAGE or MISSING_ROUTE, and  *)
(* nothing else happens in the request: no route is matched, no context    *)
(* is built and no provider called, no memory or session is made, and the  *)
(* agent, with it the LLM, is not run.                                     *)
(***************************************************************************)
C37_InvalidRequestDoesNothing ==
  (chatReq.message = "" \/ chatReq.path = "") =>
    /\ chat.pc \in {"validate", "done"}
    /\ chat.pc = "done" =>
         /\ chat.code = IF chatReq.message = "" THEN "MISSING_MESSAGE" ELSE "MISSING_ROUTE"
         /\ chat.status = 400
    /\ ~chat.matched
    /\ NoProviderCalled
    /\ chat.context = NoContext
    /\ ~chat.memoryMade
    /\ ~chat.agentRan

\* a rejected request that has a message, asks for a context and has providers
C37_Witness ==
  /\ chat.pc = "done"
  /\ chat.code = "MISSING_ROUTE"
  /\ chatReq.message # ""
  /\ chatReq.shouldFetchContext
  /\ Len(chatReq.providers) = MaxProviders

(***************************************************************************)
(* C38 (refuted).  When the LLM stream has ended and StreamWithTools has   *)
(* assembled the assistant message from the chunks and appended it to the  *)
(* memory, the message carries the tool calls of all chunks.               *)
(***************************************************************************)
AssembledFromChunks == stream.added.role # "" /\ stream.fullMessage.role = ""

C38_Original_ToolCallsAccumulated ==
  (stream.pc \in {"swtdone", "returned"} /\ AssembledFromChunks) =>
    stream.added.toolCalls = stream.received

(***************************************************************************)
(* C39 (refuted).  A context parameter whose path addresses an existing    *)
(* element of the workflow context, passing through lists by numeric       *)
(* index where the path has a number, resolves to that element.            *)
(***************************************************************************)
ListIndex(segment) == CASE segment = "0" -> 1 [] OTHER -> 0

RECURSIVE Addressed(_, _, _)
Addressed(parts, i, current) ==
  IF i > Len(parts) THEN [exists |-> TRUE, value |-> current]
  ELSE IF current.kind = "map" /\ parts[i] \in DOMAIN current.fields
       THEN Addressed(parts, i + 1, current.fields[parts[i]])
  ELSE IF current.kind = "list" /\ ListIndex(parts[i]) \in 1..Len(current.items)
       THEN Addressed(parts, i + 1, current.items[ListIndex(parts[i])])
  ELSE [exists |-> FALSE, value |-> current]

C39_Original_ListIndexResolves ==
  LET a == Addressed(PathParts(ext.path), 1, ext.ctx)
  IN (ext.pc = "done" /\ a.exists) =>
       /\ ext.res.err = ""
       /\ ext.res.set
       /\ ext.res.value = a.value

(***************************************************************************)
(* C40 (refuted).  HTTPProvider.resolveEnvVars terminates for every input  *)
(* string and every environment.                                           *)
(***************************************************************************)
C40_Original_Terminates == <>(env.pc = "done")

====
